---- MODULE Spec2Model ----
(***************************************************************************)
(* A model of the manga ingestion core: the aggregation coordinator        *)
(* (lib/scrapers/scraper-service.ts) working on the Manga and Chapter      *)
(* collections (models/Manga, models/Chapter), with the source adapters    *)
(* as its environment.                                                     *)
(*                                                                         *)
(* Every await of the coordinator is a step of its own, so that calls made *)
(* by different requests interleave exactly where the code suspends.       *)
(* Strings that the code parses (chapter numbers) are sequences of         *)
(* one-character strings; all other strings are opaque values.             *)
(***************************************************************************)
EXTENDS Integers, Sequences, FiniteSets, TLC

VARIABLES
    works,      \* the Manga collection: a sequence of documents, _id = index
    units,      \* the Chapter collection: a sequence of documents in insertion order
    pc,         \* pc[p]: where request p stands in the coordinator's code
    frame,      \* frame[p]: the local variables of request p's call(s)
    calls,      \* number of top-level calls started so far
    searchPc,   \* where the searchAllSources call stands
    searchAnswers, \* searchAllSources: what each adapter's searchManga gave
    results,    \* searchAllSources: the results object, its entries in the
                \*   order in which the keys were first assigned
    delayMs,    \* RateLimiter: the delay it was constructed with
    queue,      \* RateLimiter: the resolvers of the pending wait() calls, each
                \*   named by the number of its call
    processing, \* RateLimiter: a drain loop is running
    lastRequestTime, \* RateLimiter: when the last resolver was called
    timer,      \* RateLimiter: the setTimeout the drain loop is suspended on
    now,        \* the clock (Date.now()), in milliseconds
    waits,      \* the wait() calls made so far: when, and what the limiter did
    grants,     \* the resolvers called so far: whose, and when
    adapterOp,  \* the adapter operation under way: adapter, operation, where
                \*   it stands, and its loop index
    opsDone,    \* adapter operations completed so far
    trace,      \* what the adapters did so far: rate-limiter grants received
                \*   and requests handed to makeRequest, in order
    reqPc,      \* where the makeRequest call stands
    reqUrl,     \* its url argument
    reqConfig,  \* its config argument: retries, timeout, headers
    attempt,    \* its loop variable
    sent,       \* the request objects handed to axios, one per attempt
    failures,   \* the causes the failed attempts rejected with
    sleeps,     \* the delays slept between attempts
    reqResult,  \* what the call returned or threw
    fnInput,    \* the argument a helper function was called with
    fnOutputs   \* what it returned, and what it returned for that in turn

vars == <<works, units, pc, frame, calls, searchPc, searchAnswers, results,
          delayMs, queue, processing, lastRequestTime, timer, now, waits, grants,
          adapterOp, opsDone, trace,
          reqPc, reqUrl, reqConfig, attempt, sent, failures, sleeps, reqResult,
          fnInput, fnOutputs>>

\* the components of the state: the coordinator's calls on the two
\* collections, and a searchAllSources call
coordVars == <<works, units, pc, frame, calls>>

searchVars == <<searchPc, searchAnswers, results>>

limiterVars == <<delayMs, queue, processing, lastRequestTime, timer, now, waits, grants>>

adapterVars == <<adapterOp, opsDone, trace>>

requestVars == <<reqPc, reqUrl, reqConfig, attempt, sent, failures, sleeps, reqResult>>

helperVars == <<fnInput, fnOutputs>>

\* what the coordinator's import, update and sync calls leave alone, what a
\* searchAllSources call leaves alone, and what a RateLimiter leaves alone
utilVars == <<searchVars, limiterVars, adapterVars, requestVars, helperVars>>

outsideSearch == <<coordVars, limiterVars, adapterVars, requestVars, helperVars>>

outsideLimiter == <<coordVars, searchVars, adapterVars, requestVars, helperVars>>

outsideAdapter == <<coordVars, searchVars, limiterVars, requestVars, helperVars>>

outsideRequest == <<coordVars, searchVars, limiterVars, adapterVars, helperVars>>

outsideHelpers == <<coordVars, searchVars, limiterVars, adapterVars, requestVars>>

---------------------------------------------------------------------------
(* Bounds of the model *)

\* top-level coordinator calls that are started in one behaviour
MaxCalls == 2

\* longest chapter list an adapter answers with
MaxUnits == 2

\* longest recent-updates list an adapter answers with
MaxUpdates == 2

\* most source bindings of a stored manga (SpecUpd)
MaxBindings == 2

\* longest result list an adapter's searchManga answers with
MaxResults == 2

\* largest delay, in milliseconds, a RateLimiter is constructed with
MaxDelay == 2

\* wait() calls made on the RateLimiter in one behaviour
MaxWaits == 3

\* milliseconds after the start during which wait() calls are made
MaxTime == 3

\* adapter operations called in one behaviour
MaxOps == 2

\* full pages the chapter feed of MangaDex holds at most
MaxPages == 2

\* const limit = 500 of fetchAllChapters
PageLimit == 500

\* the largest retry count a caller of makeRequest passes
MaxRetries == 5

\* the pieces a chapter number text is made of at most
MaxPieces == 4

\* the words a status text is made of at most
MaxWords == 2

\* the localized titles the data of a MangaDex manga has at most
MaxTitles == 2

\* the pieces a url is made of at most
MaxUrlPieces == 4

\* the selectors of a list that match anything in a page, at most
MaxHits == 2

\* the elements of a page a selector matches at most
MaxMatches == 2

\* const maxRetries = config?.retries ?? 3
DefaultRetries == 3

\* const timeout = config?.timeout ?? 10000
DefaultTimeout == 10000

\* Math.min(1000 * Math.pow(2, attempt), 10000)
BackoffBase == 1000

BackoffCap == 10000

---------------------------------------------------------------------------
(* Program constants *)

\* updateMangaChapters asks every source for its 50 latest chapters
LatestLimit == 50

\* default limit of syncRecentUpdates
DefaultSyncLimit == 20

---------------------------------------------------------------------------
(* Value domains *)

\* an optional field that is undefined
Absent == "<undefined>"

\* the requests (logical tasks) that may be in flight together
Procs == {"r1", "r2"}

\* type SourceName
SourceName == {"mangadex", "weebcentral", "other"}

\* the source ids the environment knows
SourceIds == {"x", "y"}

\* ScrapedManga values the adapters answer with.  The titles are trimmed and
\* non-empty, so the schema's trim setter and required validator leave them as
\* they are.
MangaFull ==
    [ title |-> "Kingdom", alternativeTitles |-> <<"Kingudamu">>,
      author |-> "Hara", artist |-> "Hara", description |-> "war",
      coverImage |-> "k.jpg", genres |-> <<"action">>, status |-> "ongoing",
      sourceUrl |-> "site/kingdom" ]

MangaBare ==
    [ title |-> "Kingdom (2nd)", alternativeTitles |-> <<>>,
      author |-> Absent, artist |-> Absent, description |-> Absent,
      coverImage |-> Absent, genres |-> <<>>, status |-> "completed",
      sourceUrl |-> "site/kingdom-2" ]

ScrapedMangas == {MangaFull, MangaBare}

\* chapter numbers, as the character sequences the code parses
N9    == <<"9">>
N10   == <<"1", "0">>
N10_5 == <<"1", "0", ".", "5">>
NText == <<"E", "x", "t", "r", "a">>

\* ScrapedChapter values the adapters answer with: two payloads of chapter c1,
\* a chapter c2, and a chapter c3 whose number is no number
ChapterDawn ==
    [ sourceId |-> "c1", number |-> N10, title |-> "Dawn", volume |-> "1",
      sourceUrl |-> "u/c1", publishedAt |-> "d1", pages |-> "18",
      translatedLanguage |-> "en", scanlationGroup |-> "g1" ]

ChapterNine ==
    [ sourceId |-> "c1", number |-> N9, title |-> Absent, volume |-> Absent,
      sourceUrl |-> "u/c1/v2", publishedAt |-> Absent, pages |-> "20",
      translatedLanguage |-> "en", scanlationGroup |-> Absent ]

ChapterDusk ==
    [ sourceId |-> "c2", number |-> N10_5, title |-> "Dusk", volume |-> "1",
      sourceUrl |-> "u/c2", publishedAt |-> "d2", pages |-> "7",
      translatedLanguage |-> "en", scanlationGroup |-> "g2" ]

ChapterExtra ==
    [ sourceId |-> "c3", number |-> NText, title |-> Absent, volume |-> Absent,
      sourceUrl |-> "u/c3", publishedAt |-> Absent, pages |-> Absent,
      translatedLanguage |-> Absent, scanlationGroup |-> Absent ]

ScrapedChapters == {ChapterDawn, ChapterNine, ChapterDusk, ChapterExtra}

\* the optional fields of a ScrapedChapter that importChapters copies
OptionalChapterFields ==
    {"title", "volume", "publishedAt", "pages", "translatedLanguage",
     "scanlationGroup"}

\* all sequences over S of length at most n
SeqUpTo(S, n) == UNION { [1..k -> S] : k \in 0..n }

\* the answers of the environment are drawn from sets that each specification
\* names: sequences, of bounded length, over a set of values
ChapterLists(chapters) == SeqUpTo(chapters, MaxUnits)

\* recent-updates lists (the sourceId of each SearchResult; its title and cover
\* are only logged)
UpdateLists(sourceIds) == SeqUpTo(sourceIds, MaxUpdates)

---------------------------------------------------------------------------
(* parseFloat, on character sequences *)

Digits == <<"0", "1", "2", "3", "4", "5", "6", "7", "8", "9">>

IsDigit(c) == \E k \in 1..Len(Digits) : Digits[k] = c

DigitVal(c) == (CHOOSE k \in 1..Len(Digits) : Digits[k] = c) - 1

RECURSIVE SkipWhite(_)
SkipWhite(s) ==
    IF s # <<>> /\ Head(s) = " " THEN SkipWhite(Tail(s)) ELSE s

RECURSIVE TakeDigits(_)
TakeDigits(s) ==
    IF s # <<>> /\ IsDigit(Head(s))
        THEN <<Head(s)>> \o TakeDigits(Tail(s))
        ELSE <<>>

RECURSIVE DigitsToNat(_)
DigitsToNat(s) ==
    IF s = <<>> THEN 0
    ELSE 10 * DigitsToNat(SubSeq(s, 1, Len(s) - 1)) + DigitVal(s[Len(s)])

RECURSIVE Pow10(_)
Pow10(n) == IF n = 0 THEN 1 ELSE 10 * Pow10(n - 1)

NaN == [nan |-> TRUE, neg |-> FALSE, num |-> 0, scale |-> 0]

\* parseFloat(s): leading white space is skipped, then an optional sign, digits,
\* and an optional fraction are read; what follows is ignored; NaN when no digit
\* was read.  The value is (neg ? -1 : 1) * num / 10^scale.
ParseFloat(s) ==
    LET t     == SkipWhite(s)
        signed == t # <<>> /\ Head(t) \in {"+", "-"}
        neg   == t # <<>> /\ Head(t) = "-"
        u     == IF signed THEN Tail(t) ELSE t
        ip    == TakeDigits(u)
        rest  == SubSeq(u, Len(ip) + 1, Len(u))
        fp    == IF rest # <<>> /\ Head(rest) = "."
                     THEN TakeDigits(Tail(rest)) ELSE <<>>
    IN  IF Len(ip) + Len(fp) = 0 THEN NaN
        ELSE [nan |-> FALSE, neg |-> neg,
              num |-> DigitsToNat(ip \o fp), scale |-> Len(fp)]

SignedNum(a) == IF a.neg THEN 0 - a.num ELSE a.num

\* a > b on the numbers parseFloat yields: false as soon as one of them is NaN
FloatGreater(a, b) ==
    /\ ~a.nan
    /\ ~b.nan
    /\ SignedNum(a) * Pow10(b.scale) > SignedNum(b) * Pow10(a.scale)

---------------------------------------------------------------------------
(* The adapter registry *)

\* the constructor registers two adapters; "other" is a SourceName without one
Registered == {"mangadex", "weebcentral"}

\* a variant of the lookup that finds an adapter for every token
getScraperAny(source) == TRUE

\* getScraper(source) !== undefined
getScraper(source) == source \in Registered

\* whether the adapter's getLatestChapters can reject: MangaDex catches every
\* failure and answers [], WeebCentral goes through getMangaDetails, which rethrows
LatestCanThrow(source) == source = "weebcentral"

\* chapters.slice(0, limit)
Slice(s, limit) == IF Len(s) <= limit THEN s ELSE SubSeq(s, 1, limit)

---------------------------------------------------------------------------
(* The Manga collection *)

NoPointer == <<>>

\* the cached latest-chapter pointer made from one scraped chapter
\* (updatedAt, the wall clock, is left out)
PointerOf(chapter, source) ==
    << [number |-> chapter.number, title |-> chapter.title, source |-> source] >>

\* a variant of the query that leaves out "sources.name"
MatchesSourceId(doc, source, sourceId) ==
    \E k \in 1..Len(doc.sources) : doc.sources[k].id = sourceId

\* Manga.findOne({"sources.name": source, "sources.id": sourceId}): the first
\* document that has an element with that name and an element with that id
\* (the two conditions are not tied to one element); 0 when there is none
MatchesSource(doc, source, sourceId) ==
    /\ \E k \in 1..Len(doc.sources) : doc.sources[k].name = source
    /\ \E k \in 1..Len(doc.sources) : doc.sources[k].id = sourceId

\* a variant of the query that looks for sourceId in "sources.url": it finds
\* no stored document
FindOneByUrl(ws, source, sourceId) ==
    IF \E k \in 1..Len(ws) :
          /\ \E a \in 1..Len(ws[k].sources) : ws[k].sources[a].name = source
          /\ \E a \in 1..Len(ws[k].sources) : ws[k].sources[a].url = sourceId
        THEN CHOOSE k \in 1..Len(ws) :
                /\ \E a \in 1..Len(ws[k].sources) : ws[k].sources[a].name = source
                /\ \E a \in 1..Len(ws[k].sources) : ws[k].sources[a].url = sourceId
        ELSE 0

FindOneBySource(ws, source, sourceId) ==
    IF \E k \in 1..Len(ws) : MatchesSource(ws[k], source, sourceId)
        THEN CHOOSE k \in 1..Len(ws) :
                /\ MatchesSource(ws[k], source, sourceId)
                /\ \A j \in 1..(k - 1) : ~MatchesSource(ws[j], source, sourceId)
        ELSE 0

\* a variant of the assignments that keeps a stored field where the scraped
\* manga has none
MergedManga(doc, manga, chapters, source) ==
    [ doc EXCEPT
        !.title = manga.title,
        !.alternativeTitles = manga.alternativeTitles,
        !.author = IF manga.author = Absent THEN doc.author ELSE manga.author,
        !.artist = IF manga.artist = Absent THEN doc.artist ELSE manga.artist,
        !.description =
            IF manga.description = Absent THEN doc.description ELSE manga.description,
        !.coverImage =
            IF manga.coverImage = Absent THEN doc.coverImage ELSE manga.coverImage,
        !.genres = manga.genres,
        !.status = manga.status,
        !.latestChapter =
            IF Len(chapters) > 0
                THEN << [number |-> chapters[Len(chapters)].number,
                         title |-> chapters[Len(chapters)].title,
                         source |-> source] >>
                ELSE doc.latestChapter ]

\* a variant of the assignments that takes the pointer from the first chapter
\* of the list
UpdatedMangaFirst(doc, manga, chapters, source) ==
    [ doc EXCEPT
        !.title = manga.title,
        !.alternativeTitles = manga.alternativeTitles,
        !.author = manga.author,
        !.artist = manga.artist,
        !.description = manga.description,
        !.coverImage = manga.coverImage,
        !.genres = manga.genres,
        !.status = manga.status,
        !.latestChapter =
            IF Len(chapters) > 0
                THEN << [number |-> chapters[1].number,
                         title |-> chapters[1].title,
                         source |-> source] >>
                ELSE doc.latestChapter ]

\* the existing document after importManga's assignments
UpdatedManga(doc, manga, chapters, source) ==
    [ doc EXCEPT
        !.title = manga.title,
        !.alternativeTitles = manga.alternativeTitles,
        !.author = manga.author,
        !.artist = manga.artist,
        !.description = manga.description,
        !.coverImage = manga.coverImage,
        !.genres = manga.genres,
        !.status = manga.status,
        !.latestChapter =
            IF Len(chapters) > 0
                THEN PointerOf(chapters[Len(chapters)], source)
                ELSE doc.latestChapter ]

\* a variant of the created document that binds the source by the manga's url
NewMangaBoundByUrl(manga, chapters, source, sourceId) ==
    [ title |-> manga.title,
      alternativeTitles |-> manga.alternativeTitles,
      author |-> manga.author,
      artist |-> manga.artist,
      description |-> manga.description,
      coverImage |-> manga.coverImage,
      genres |-> manga.genres,
      status |-> manga.status,
      sources |-> << [name |-> source, id |-> manga.sourceUrl, url |-> manga.sourceUrl] >>,
      latestChapter |->
          IF Len(chapters) > 0
              THEN << [number |-> chapters[Len(chapters)].number,
                       title |-> chapters[Len(chapters)].title,
                       source |-> source] >>
              ELSE <<>> ]

\* a variant of the created document that also binds a second source
NewMangaMirrored(manga, chapters, source, sourceId) ==
    [ title |-> manga.title,
      alternativeTitles |-> manga.alternativeTitles,
      author |-> manga.author,
      artist |-> manga.artist,
      description |-> manga.description,
      coverImage |-> manga.coverImage,
      genres |-> manga.genres,
      status |-> manga.status,
      sources |-> << [name |-> source, id |-> sourceId, url |-> manga.sourceUrl],
                     [name |-> "mangadex", id |-> sourceId, url |-> manga.sourceUrl] >>,
      latestChapter |->
          IF Len(chapters) > 0
              THEN PointerOf(chapters[Len(chapters)], source)
              ELSE NoPointer ]

\* the document importManga creates
NewManga(manga, chapters, source, sourceId) ==
    [ title |-> manga.title,
      alternativeTitles |-> manga.alternativeTitles,
      author |-> manga.author,
      artist |-> manga.artist,
      description |-> manga.description,
      coverImage |-> manga.coverImage,
      genres |-> manga.genres,
      status |-> manga.status,
      sources |-> << [name |-> source, id |-> sourceId, url |-> manga.sourceUrl] >>,
      latestChapter |->
          IF Len(chapters) > 0
              THEN PointerOf(chapters[Len(chapters)], source)
              ELSE NoPointer ]

\* a variant of the pointer rule that replaces the pointer unless the cached
\* number is the greater one
AdvancePointerNotLess(doc, latestChapters, sourceName) ==
    IF Len(latestChapters) > 0
       /\ ( \/ doc.latestChapter = <<>>
            \/ ~FloatGreater(ParseFloat(doc.latestChapter[1].number),
                             ParseFloat(latestChapters[1].number)) )
        THEN [doc EXCEPT !.latestChapter =
                 << [number |-> latestChapters[1].number,
                     title |-> latestChapters[1].title,
                     source |-> sourceName] >>]
        ELSE doc

\* updateMangaChapters' pointer rule on the in-memory document: the first of the
\* latest chapters replaces the pointer when none is cached or when its number
\* parses to a greater float
AdvancePointer(doc, latestChapters, sourceName) ==
    IF Len(latestChapters) > 0
       /\ ( \/ doc.latestChapter = NoPointer
            \/ FloatGreater(ParseFloat(latestChapters[1].number),
                            ParseFloat(doc.latestChapter[1].number)) )
        THEN [doc EXCEPT !.latestChapter = PointerOf(latestChapters[1], sourceName)]
        ELSE doc

---------------------------------------------------------------------------
(* The Chapter collection *)

\* the filter of one updateOne of importChapters
MatchesUnit(row, mangaId, source, chapterSourceId) ==
    /\ row.mangaId = mangaId
    /\ row.source.name = source
    /\ row.source.id = chapterSourceId

\* the first document the filter matches, 0 when there is none
MatchUnit(rows, mangaId, source, chapterSourceId) ==
    IF \E k \in 1..Len(rows) : MatchesUnit(rows[k], mangaId, source, chapterSourceId)
        THEN CHOOSE k \in 1..Len(rows) :
                /\ MatchesUnit(rows[k], mangaId, source, chapterSourceId)
                /\ \A j \in 1..(k - 1) :
                       ~MatchesUnit(rows[j], mangaId, source, chapterSourceId)
        ELSE 0

\* one $set field with an undefined value: it is dropped from the update (the
\* stored value stays) or written as no value, as the object mapper's release
\* decides
SetField(old, new, strip) == IF new = Absent /\ strip THEN old ELSE new

\* a variant of the update that writes its fields with $setOnInsert: a matched
\* document stays as it is
SetOnInsertUnit(row, mangaId, source, chapter, strip) == row

\* the matched document after the $set of importChapters
SetUnit(row, mangaId, source, chapter, strip) ==
    [ mangaId |-> mangaId,
      number |-> chapter.number,
      title |-> SetField(row.title, chapter.title, strip),
      volume |-> SetField(row.volume, chapter.volume, strip),
      source |-> [name |-> source, id |-> chapter.sourceId, url |-> chapter.sourceUrl],
      publishedAt |-> SetField(row.publishedAt, chapter.publishedAt, strip),
      pages |-> SetField(row.pages, chapter.pages, strip),
      translatedLanguage |->
          SetField(row.translatedLanguage, chapter.translatedLanguage, strip),
      scanlationGroup |->
          SetField(row.scanlationGroup, chapter.scanlationGroup, strip) ]

\* the document an upsert inserts: the filter, the $set, and the schema default
\* of translatedLanguage
NewUnit(mangaId, source, chapter) ==
    [ mangaId |-> mangaId,
      number |-> chapter.number,
      title |-> chapter.title,
      volume |-> chapter.volume,
      source |-> [name |-> source, id |-> chapter.sourceId, url |-> chapter.sourceUrl],
      publishedAt |-> chapter.publishedAt,
      pages |-> chapter.pages,
      translatedLanguage |->
          IF chapter.translatedLanguage = Absent THEN "en"
          ELSE chapter.translatedLanguage,
      scanlationGroup |-> chapter.scanlationGroup ]

\* a variant of the index without the unique option: every insert is accepted
ChapterIndexNotUnique(rows, row) == TRUE

\* the unique index {mangaId, source.name, source.id} of the Chapter collection:
\* whether inserting row is accepted
ChapterIndexAccepts(rows, row) ==
    \A k \in 1..Len(rows) :
        ~MatchesUnit(rows[k], row.mangaId, row.source.name, row.source.id)

\* the index {sources.name, sources.id} of the Manga collection is not unique:
\* every insert is accepted
MangaIndexAccepts(ws, doc) == TRUE

---------------------------------------------------------------------------
(* Requests *)

NoManga == [ title |-> Absent, alternativeTitles |-> <<>>, author |-> Absent,
             artist |-> Absent, description |-> Absent, coverImage |-> Absent,
             genres |-> <<>>, status |-> Absent, sourceUrl |-> Absent ]

\* the locals of a request that is not in a call
IdleFrame ==
    [ top       |-> "none",     \* the coordinator operation the request called
      call      |-> "none",     \* the operation it is in now (sync calls the other two)
      source    |-> Absent,     \* importManga: source
      sourceId  |-> Absent,     \* importManga: sourceId
      manga     |-> NoManga,    \* importManga: the scraped manga
      chapters  |-> <<>>,       \* the scraped chapters being imported
      existed   |-> FALSE,      \* importManga: findOne found a document
      mangaId   |-> 0,          \* the _id of the document in hand, 0 for none
      i         |-> 0,          \* importChapters: the bulk operation in turn
      doc       |-> <<>>,       \* updateMangaChapters: the loaded document
      before    |-> <<>>,       \* the stored document as findOne / findById gave it
      bi        |-> 0,          \* updateMangaChapters: the binding in turn
      fetched   |-> <<>>,       \* updateMangaChapters: what each binding's fetch gave
      saves     |-> 0,          \* updateMangaChapters: manga.save() calls made
      syncSource |-> Absent,    \* syncRecentUpdates: source
      updates   |-> <<>>,       \* syncRecentUpdates: the recent-updates list
      ui        |-> 0,          \* syncRecentUpdates: the entry in turn
      route     |-> <<>>,       \* syncRecentUpdates: the entries taken so far, each
                                \*   with the call it was routed to
      nworks    |-> 0,          \* syncRecentUpdates: documents stored as the entry
                                \*   in turn was taken
      outcome   |-> <<>>,       \* syncRecentUpdates: how each entry's call ended
      found     |-> <<>>,       \* searchSource: the list searchManga answered with;
                                \*   getMangaWithChapters: the chapters found
      status    |-> 0,          \* the status the route handler answered with
      error     |-> "none" ]    \* the error the call raised

InSync(f) == f.top = "sync"

\* the record of one turn of updateMangaChapters' loop: the binding, how its
\* fetch-and-import ended, and the chapters fetched
Fetched(f, kind, list) ==
    [binding |-> f.doc[1].sources[f.bi], kind |-> kind, list |-> list]

\* a variant without the try block in syncRecentUpdates' loop: an error raised
\* by the call made for an entry ends syncRecentUpdates
EndCallNoCatch(p, f, error) ==
    IF InSync(f) /\ f.call # "sync" /\ error = "none"
        THEN /\ pc' = [pc EXCEPT ![p] = "sync_entry"]
             /\ frame' = [frame EXCEPT ![p] =
                    [ IdleFrame EXCEPT
                        !.top = "sync", !.call = "sync",
                        !.syncSource = f.syncSource, !.updates = f.updates,
                        !.ui = f.ui + 1, !.route = f.route,
                        !.outcome = Append(f.outcome, error) ] ]
        ELSE /\ pc' = [pc EXCEPT ![p] = IF error = "none" THEN "returned" ELSE "raised"]
             /\ frame' = [frame EXCEPT ![p] = [f EXCEPT !.error = error]]

\* the call of request p ends, normally (error = "none") or by raising: inside
\* syncRecentUpdates' try block the loop goes on with the next entry, and a
\* top-level call is over
EndCall(p, f, error) ==
    IF InSync(f) /\ f.call # "sync"
        THEN /\ pc' = [pc EXCEPT ![p] = "sync_entry"]
             /\ frame' = [frame EXCEPT ![p] =
                    [ IdleFrame EXCEPT
                        !.top = "sync", !.call = "sync",
                        !.syncSource = f.syncSource, !.updates = f.updates,
                        !.ui = f.ui + 1, !.route = f.route,
                        !.outcome = Append(f.outcome, error) ] ]
        ELSE /\ pc' = [pc EXCEPT ![p] = IF error = "none" THEN "returned" ELSE "raised"]
             /\ frame' = [frame EXCEPT ![p] = [f EXCEPT !.error = error]]

---------------------------------------------------------------------------
(* importManga *)

\* a caller invokes importManga(source, sourceId)
importManga_call(p, source, sourceId) ==
    /\ pc[p] = "idle"
    /\ calls < MaxCalls
    /\ calls' = calls + 1
    /\ pc' = [pc EXCEPT ![p] = "imp_enter"]
    /\ frame' = [frame EXCEPT ![p] =
            [IdleFrame EXCEPT !.top = "import", !.call = "import",
                              !.source = source, !.sourceId = sourceId]]
    /\ UNCHANGED <<works, units>>
    /\ UNCHANGED utilVars

\* a variant that stores a manga for the binding before the details are
\* fetched
importManga_enterCreatesFirst(p) ==
    /\ pc[p] = "imp_enter"
    /\ IF getScraper(frame[p].source)
          THEN /\ pc' = [pc EXCEPT ![p] = "imp_details"]
               /\ frame' = frame
               /\ works' = Append(works, NewManga(NoManga, <<>>, frame[p].source,
                                                  frame[p].sourceId))
          ELSE EndCall(p, frame[p], "InvalidSource") /\ works' = works
    /\ UNCHANGED <<units, calls>>
    /\ UNCHANGED utilVars

\* connectDB, then the adapter lookup: an unregistered source raises
importManga_enter(p) ==
    /\ pc[p] = "imp_enter"
    /\ IF getScraper(frame[p].source)
          THEN /\ pc' = [pc EXCEPT ![p] = "imp_details"]
               /\ frame' = frame
          ELSE EndCall(p, frame[p], "InvalidSource")
    /\ UNCHANGED <<works, units, calls>>
    /\ UNCHANGED utilVars

\* scraper.getMangaDetails answers with a manga and its chapters
importManga_details(p, mangas, lists) ==
    /\ pc[p] = "imp_details"
    /\ \E manga \in mangas, chapters \in lists :
          frame' = [frame EXCEPT ![p].manga = manga, ![p].chapters = chapters]
    /\ pc' = [pc EXCEPT ![p] = "imp_findOne"]
    /\ UNCHANGED <<works, units, calls>>
    /\ UNCHANGED utilVars

\* scraper.getMangaDetails rejects: importManga rejects with it
importManga_detailsFail(p) ==
    /\ pc[p] = "imp_details"
    /\ EndCall(p, frame[p], "FetchFailed")
    /\ UNCHANGED <<works, units, calls>>
    /\ UNCHANGED utilVars

\* Manga.findOne by the source binding
importManga_findOne(p) ==
    /\ pc[p] = "imp_findOne"
    /\ LET id == FindOneBySource(works, frame[p].source, frame[p].sourceId)
       IN  frame' = [frame EXCEPT
               ![p].mangaId = id,
               ![p].existed = (id # 0),
               ![p].before = IF id # 0 THEN <<works[id]>> ELSE <<>>]
    /\ pc' = [pc EXCEPT ![p] = "imp_write"]
    /\ UNCHANGED <<works, units, calls>>
    /\ UNCHANGED utilVars

\* existingManga.save() of the updated document, or Manga.create
importManga_write(p) ==
    /\ pc[p] = "imp_write"
    /\ LET f == frame[p]
       IN  IF f.existed
              THEN /\ works' = [works EXCEPT ![f.mangaId] =
                          UpdatedManga(works[f.mangaId], f.manga, f.chapters, f.source)]
                   /\ frame' = [frame EXCEPT ![p].i = 1]
              ELSE LET doc == NewManga(f.manga, f.chapters, f.source, f.sourceId)
                   IN  /\ MangaIndexAccepts(works, doc)
                       /\ works' = Append(works, doc)
                       /\ frame' = [frame EXCEPT ![p].mangaId = Len(works) + 1,
                                                 ![p].i = 1]
    /\ pc' = [pc EXCEPT ![p] = "bulk_match"]
    /\ UNCHANGED <<units, calls>>
    /\ UNCHANGED utilVars

---------------------------------------------------------------------------
(* importChapters: Chapter.bulkWrite of one upserting updateOne per chapter,   *)
(* applied in list order, each updateOne on its own                           *)

\* the source name importChapters is called with
BulkSource(f) ==
    IF f.call = "import" THEN f.source ELSE f.doc[1].sources[f.bi].name

\* an updateOne finds a document that matches its filter and sets its fields
importChapters_update(p) ==
    /\ pc[p] = "bulk_match"
    /\ frame[p].i <= Len(frame[p].chapters)
    /\ LET f  == frame[p]
           ch == f.chapters[f.i]
           k  == MatchUnit(units, f.mangaId, BulkSource(f), ch.sourceId)
       IN  /\ k # 0
           /\ \E strip \in BOOLEAN :
                 units' = [units EXCEPT ![k] =
                              SetUnit(units[k], f.mangaId, BulkSource(f), ch, strip)]
    /\ frame' = [frame EXCEPT ![p].i = @ + 1]
    /\ UNCHANGED <<works, pc, calls>>
    /\ UNCHANGED utilVars

\* an updateOne finds no document that matches its filter: it will insert
importChapters_miss(p) ==
    /\ pc[p] = "bulk_match"
    /\ frame[p].i <= Len(frame[p].chapters)
    /\ LET f  == frame[p]
           ch == f.chapters[f.i]
       IN  MatchUnit(units, f.mangaId, BulkSource(f), ch.sourceId) = 0
    /\ pc' = [pc EXCEPT ![p] = "bulk_insert"]
    /\ UNCHANGED <<works, units, frame, calls>>
    /\ UNCHANGED utilVars

\* the upsert inserts its document, the unique index permitting
importChapters_insert(p) ==
    /\ pc[p] = "bulk_insert"
    /\ LET f   == frame[p]
           row == NewUnit(f.mangaId, BulkSource(f), f.chapters[f.i])
       IN  /\ ChapterIndexAccepts(units, row)
           /\ units' = Append(units, row)
    /\ pc' = [pc EXCEPT ![p] = "bulk_match"]
    /\ frame' = [frame EXCEPT ![p].i = @ + 1]
    /\ UNCHANGED <<works, calls>>
    /\ UNCHANGED utilVars

\* the unique index refuses the insert (another request inserted the key in
\* between) and the server runs the updateOne again, now as an update
importChapters_retry(p) ==
    /\ pc[p] = "bulk_insert"
    /\ LET f   == frame[p]
           row == NewUnit(f.mangaId, BulkSource(f), f.chapters[f.i])
       IN  ~ChapterIndexAccepts(units, row)
    /\ pc' = [pc EXCEPT ![p] = "bulk_match"]
    /\ UNCHANGED <<works, units, frame, calls>>
    /\ UNCHANGED utilVars

\* the unique index refuses the insert and bulkWrite rejects with the duplicate
\* key error; the operations after it are not applied
importChapters_duplicateKey(p) ==
    /\ pc[p] = "bulk_insert"
    /\ LET f   == frame[p]
           row == NewUnit(f.mangaId, BulkSource(f), f.chapters[f.i])
       IN  ~ChapterIndexAccepts(units, row)
    /\ IF frame[p].call = "import"
          THEN EndCall(p, frame[p], "DuplicateKey")
          ELSE \* updateMangaChapters catches it and goes to the next binding
               /\ pc' = [pc EXCEPT ![p] = "upd_source"]
               /\ frame' = [frame EXCEPT
                      ![p].fetched = Append(@, Fetched(frame[p], "threw", <<>>)),
                      ![p].bi = @ + 1]
    /\ UNCHANGED <<works, units, calls>>
    /\ UNCHANGED utilVars

\* bulkWrite is over (or was not called, the list being empty)
importChapters_done(p) ==
    /\ pc[p] = "bulk_match"
    /\ frame[p].i > Len(frame[p].chapters)
    /\ IF frame[p].call = "import"
          THEN EndCall(p, frame[p], "none")
          ELSE /\ pc' = [pc EXCEPT ![p] = "upd_pointer"]
               /\ frame' = frame
    /\ UNCHANGED <<works, units, calls>>
    /\ UNCHANGED utilVars

---------------------------------------------------------------------------
(* updateMangaChapters *)

\* a caller invokes updateMangaChapters(mangaId)
updateMangaChapters_call(p, mangaId) ==
    /\ pc[p] = "idle"
    /\ calls < MaxCalls
    /\ calls' = calls + 1
    /\ pc' = [pc EXCEPT ![p] = "upd_findById"]
    /\ frame' = [frame EXCEPT ![p] =
            [IdleFrame EXCEPT !.top = "update", !.call = "update",
                              !.mangaId = mangaId]]
    /\ UNCHANGED <<works, units>>
    /\ UNCHANGED utilVars

\* connectDB and Manga.findById: the document is loaded
updateMangaChapters_findById(p) ==
    /\ pc[p] = "upd_findById"
    /\ frame[p].mangaId \in 1..Len(works)
    /\ frame' = [frame EXCEPT ![p].doc = <<works[frame[p].mangaId]>>,
                              ![p].before = <<works[frame[p].mangaId]>>,
                              ![p].bi = 1]
    /\ pc' = [pc EXCEPT ![p] = "upd_source"]
    /\ UNCHANGED <<works, units, calls>>
    /\ UNCHANGED utilVars

\* Manga.findById finds nothing: "Manga not found"
updateMangaChapters_notFound(p) ==
    /\ pc[p] = "upd_findById"
    /\ frame[p].mangaId \notin 1..Len(works)
    /\ EndCall(p, frame[p], "NotFound")
    /\ UNCHANGED <<works, units, calls>>
    /\ UNCHANGED utilVars

\* the binding in turn names a source without adapter: continue
updateMangaChapters_noScraper(p) ==
    /\ pc[p] = "upd_source"
    /\ frame[p].bi <= Len(frame[p].doc[1].sources)
    /\ ~getScraper(frame[p].doc[1].sources[frame[p].bi].name)
    /\ frame' = [frame EXCEPT
           ![p].fetched = Append(@, Fetched(frame[p], "noScraper", <<>>)),
           ![p].bi = @ + 1]
    /\ UNCHANGED <<works, units, pc, calls>>
    /\ UNCHANGED utilVars

\* scraper.getLatestChapters(source.id, 50) answers; importChapters starts
updateMangaChapters_latest(p, lists) ==
    /\ pc[p] = "upd_source"
    /\ frame[p].bi <= Len(frame[p].doc[1].sources)
    /\ getScraper(frame[p].doc[1].sources[frame[p].bi].name)
    /\ \E latestChapters \in lists :
          frame' = [frame EXCEPT
              ![p].chapters = Slice(latestChapters, LatestLimit),
              ![p].i = 1]
    /\ pc' = [pc EXCEPT ![p] = "bulk_match"]
    /\ UNCHANGED <<works, units, calls>>
    /\ UNCHANGED utilVars

\* a variant without the try block around the loop's body: the rejection ends
\* updateMangaChapters
updateMangaChapters_latestAbort(p) ==
    /\ pc[p] = "upd_source"
    /\ frame[p].bi <= Len(frame[p].doc[1].sources)
    /\ frame[p].doc[1].sources[frame[p].bi].name = "weebcentral"
    /\ pc' = [pc EXCEPT ![p] = "raised"]
    /\ frame' = [frame EXCEPT ![p].error = "FetchFailed"]
    /\ UNCHANGED <<works, units, calls>>
    /\ UNCHANGED utilVars

\* scraper.getLatestChapters rejects: logged, the loop goes on
updateMangaChapters_latestFail(p) ==
    /\ pc[p] = "upd_source"
    /\ frame[p].bi <= Len(frame[p].doc[1].sources)
    /\ getScraper(frame[p].doc[1].sources[frame[p].bi].name)
    /\ LatestCanThrow(frame[p].doc[1].sources[frame[p].bi].name)
    /\ frame' = [frame EXCEPT
           ![p].fetched = Append(@, Fetched(frame[p], "threw", <<>>)),
           ![p].bi = @ + 1]
    /\ UNCHANGED <<works, units, pc, calls>>
    /\ UNCHANGED utilVars

\* after importChapters: the latest-chapter rule on the loaded document
updateMangaChapters_pointer(p) ==
    /\ pc[p] = "upd_pointer"
    /\ LET f == frame[p]
       IN  frame' = [frame EXCEPT
               ![p].doc = <<AdvancePointer(f.doc[1], f.chapters,
                                           f.doc[1].sources[f.bi].name)>>,
               ![p].fetched = Append(@, Fetched(f, "ok", f.chapters)),
               ![p].chapters = <<>>,
               ![p].i = 0,
               ![p].bi = @ + 1]
    /\ pc' = [pc EXCEPT ![p] = "upd_source"]
    /\ UNCHANGED <<works, units, calls>>
    /\ UNCHANGED utilVars

\* manga.save() after the loop: the modified path, latestChapter, is written
updateMangaChapters_save(p) ==
    /\ pc[p] = "upd_source"
    /\ frame[p].bi > Len(frame[p].doc[1].sources)
    /\ LET f == frame[p]
       IN  /\ works' = IF f.doc[1].latestChapter # f.before[1].latestChapter
                          THEN [works EXCEPT ![f.mangaId].latestChapter =
                                                 f.doc[1].latestChapter]
                          ELSE works
           /\ EndCall(p, [f EXCEPT !.saves = @ + 1], "none")
    /\ UNCHANGED <<units, calls>>
    /\ UNCHANGED utilVars

\* manga.save() after the loop rejects (the storage is unavailable): nothing is
\* written and updateMangaChapters rejects
updateMangaChapters_saveFail(p) ==
    /\ pc[p] = "upd_source"
    /\ frame[p].bi > Len(frame[p].doc[1].sources)
    /\ EndCall(p, frame[p], "StorageFailed")
    /\ UNCHANGED <<works, units, calls>>
    /\ UNCHANGED utilVars

---------------------------------------------------------------------------
(* syncRecentUpdates *)

\* a caller invokes syncRecentUpdates(source) with the default limit
syncRecentUpdates_call(p, source) ==
    /\ pc[p] = "idle"
    /\ calls < MaxCalls
    /\ calls' = calls + 1
    /\ pc' = [pc EXCEPT ![p] = "sync_recent"]
    /\ frame' = [frame EXCEPT ![p] =
            [IdleFrame EXCEPT !.top = "sync", !.call = "sync",
                              !.syncSource = source]]
    /\ UNCHANGED <<works, units>>
    /\ UNCHANGED utilVars

\* getRecentUpdates: an unregistered source raises, outside the loop's try
syncRecentUpdates_invalidSource(p) ==
    /\ pc[p] = "sync_recent"
    /\ ~getScraper(frame[p].syncSource)
    /\ EndCall(p, frame[p], "InvalidSource")
    /\ UNCHANGED <<works, units, calls>>
    /\ UNCHANGED utilVars

\* getRecentUpdates: the adapter answers with its list (empty when it failed)
syncRecentUpdates_recent(p, updateLists) ==
    /\ pc[p] = "sync_recent"
    /\ getScraper(frame[p].syncSource)
    /\ \E updates \in updateLists :
          frame' = [frame EXCEPT
              ![p].updates = Slice(updates, DefaultSyncLimit),
              ![p].ui = 1]
    /\ pc' = [pc EXCEPT ![p] = "sync_entry"]
    /\ UNCHANGED <<works, units, calls>>
    /\ UNCHANGED utilVars

\* a variant of the loop's body that imports every entry
syncRecentUpdates_importEvery(p) ==
    /\ pc[p] = "sync_entry"
    /\ frame[p].ui <= Len(frame[p].updates)
    /\ pc' = [pc EXCEPT ![p] = "imp_enter"]
    /\ frame' = [frame EXCEPT
           ![p].call = "import",
           ![p].source = frame[p].syncSource,
           ![p].sourceId = frame[p].updates[frame[p].ui],
           ![p].route = Append(@, [id |-> frame[p].updates[frame[p].ui],
                                   to |-> "import"]),
           ![p].nworks = Len(works)]
    /\ UNCHANGED <<works, units, calls>>
    /\ UNCHANGED utilVars

\* one entry: Manga.findOne by the binding, then updateMangaChapters of the
\* document found, or importManga
syncRecentUpdates_entry(p) ==
    /\ pc[p] = "sync_entry"
    /\ frame[p].ui <= Len(frame[p].updates)
    /\ LET f        == frame[p]
           sourceId == f.updates[f.ui]
           existing == FindOneBySource(works, f.syncSource, sourceId)
       IN  IF existing # 0
              THEN /\ pc' = [pc EXCEPT ![p] = "upd_findById"]
                   /\ frame' = [frame EXCEPT
                          ![p].call = "update",
                          ![p].mangaId = existing,
                          ![p].route = Append(@, [id |-> sourceId, to |-> "update"]),
                          ![p].nworks = Len(works)]
              ELSE /\ pc' = [pc EXCEPT ![p] = "imp_enter"]
                   /\ frame' = [frame EXCEPT
                          ![p].call = "import",
                          ![p].source = f.syncSource,
                          ![p].sourceId = sourceId,
                          ![p].route = Append(@, [id |-> sourceId, to |-> "import"]),
                          ![p].nworks = Len(works)]
    /\ UNCHANGED <<works, units, calls>>
    /\ UNCHANGED utilVars

\* the list is done
syncRecentUpdates_done(p) ==
    /\ pc[p] = "sync_entry"
    /\ frame[p].ui > Len(frame[p].updates)
    /\ EndCall(p, frame[p], "none")
    /\ UNCHANGED <<works, units, calls>>
    /\ UNCHANGED utilVars

---------------------------------------------------------------------------
(* the storage rejects an operation (it is unavailable, say)                  *)

\* Manga.findOne of importManga rejects: importManga rejects with it
importManga_findOneFail(p) ==
    /\ pc[p] = "imp_findOne"
    /\ EndCall(p, frame[p], "StorageFailed")
    /\ UNCHANGED <<works, units, calls>>
    /\ UNCHANGED utilVars

\* existingManga.save() or Manga.create rejects: nothing is written and
\* importManga rejects with it
importManga_writeFail(p) ==
    /\ pc[p] = "imp_write"
    /\ EndCall(p, frame[p], "StorageFailed")
    /\ UNCHANGED <<works, units, calls>>
    /\ UNCHANGED utilVars

\* Chapter.bulkWrite rejects before one of its operations: importManga rejects
\* with it, and in updateMangaChapters the catch of the loop's body logs it
\* and the loop goes on with the next binding
importChapters_bulkWriteFail(p) ==
    /\ pc[p] = "bulk_match"
    /\ frame[p].i <= Len(frame[p].chapters)
    /\ IF frame[p].call = "import"
          THEN EndCall(p, frame[p], "StorageFailed")
          ELSE /\ pc' = [pc EXCEPT ![p] = "upd_source"]
               /\ frame' = [frame EXCEPT
                      ![p].fetched = Append(@, Fetched(frame[p], "storageFailed", <<>>)),
                      ![p].chapters = <<>>,
                      ![p].i = 0,
                      ![p].bi = @ + 1]
    /\ UNCHANGED <<works, units, calls>>
    /\ UNCHANGED utilVars

\* Manga.findById of updateMangaChapters rejects: updateMangaChapters rejects
updateMangaChapters_findByIdFail(p) ==
    /\ pc[p] = "upd_findById"
    /\ EndCall(p, frame[p], "StorageFailed")
    /\ UNCHANGED <<works, units, calls>>
    /\ UNCHANGED utilVars

\* Manga.findOne of an entry of syncRecentUpdates rejects, inside the try of
\* the loop's body: logged, the loop goes on with the next entry
syncRecentUpdates_findOneFail(p) ==
    /\ pc[p] = "sync_entry"
    /\ frame[p].ui <= Len(frame[p].updates)
    /\ frame' = [frame EXCEPT
           ![p].route = Append(@, [id |-> frame[p].updates[frame[p].ui],
                                   to |-> "none"]),
           ![p].outcome = Append(@, "StorageFailed"),
           ![p].nworks = Len(works),
           ![p].ui = @ + 1]
    /\ UNCHANGED <<works, units, pc, calls>>
    /\ UNCHANGED utilVars

---------------------------------------------------------------------------
(* searchSource *)

\* a caller invokes searchSource(source, query)
searchSource_call(p, source) ==
    /\ pc[p] = "idle"
    /\ calls < MaxCalls
    /\ calls' = calls + 1
    /\ pc' = [pc EXCEPT ![p] = "src_enter"]
    /\ frame' = [frame EXCEPT ![p] =
            [IdleFrame EXCEPT !.top = "search", !.call = "search", !.source = source]]
    /\ UNCHANGED <<works, units>>
    /\ UNCHANGED utilVars

\* the adapter lookup: an unregistered source raises
searchSource_invalidSource(p) ==
    /\ pc[p] = "src_enter"
    /\ ~getScraper(frame[p].source)
    /\ EndCall(p, frame[p], "InvalidSource")
    /\ UNCHANGED <<works, units, calls>>
    /\ UNCHANGED utilVars

\* return await scraper.searchManga(query): the adapter answers with a list
searchSource_search(p, lists) ==
    /\ pc[p] = "src_enter"
    /\ getScraper(frame[p].source)
    /\ \E list \in lists :
          EndCall(p, [frame[p] EXCEPT !.found = list], "none")
    /\ UNCHANGED <<works, units, calls>>
    /\ UNCHANGED utilVars

\* scraper.searchManga rejects: searchSource rejects with it
searchSource_searchFail(p) ==
    /\ pc[p] = "src_enter"
    /\ getScraper(frame[p].source)
    /\ EndCall(p, frame[p], "FetchFailed")
    /\ UNCHANGED <<works, units, calls>>
    /\ UNCHANGED utilVars

---------------------------------------------------------------------------
(* getMangaWithChapters *)

\* the characters of chapter numbers in code-unit order, the order in which
\* the storage compares strings
CharOrder == <<".", "0", "1", "2", "3", "4", "5", "6", "7", "8", "9",
               "E", "a", "r", "t", "x">>

CharRank(c) == CHOOSE k \in 1..Len(CharOrder) : CharOrder[k] = c

RECURSIVE StringLess(_, _)
StringLess(a, b) ==
    IF b = <<>> THEN FALSE
    ELSE IF a = <<>> THEN TRUE
    ELSE IF Head(a) = Head(b) THEN StringLess(Tail(a), Tail(b))
    ELSE CharRank(Head(a)) < CharRank(Head(b))

\* rows with row put after the last one that is not greater
InsertByNumber(rows, row) ==
    LET k == Cardinality({ j \in 1..Len(rows) : ~StringLess(row.number, rows[j].number) })
    IN  SubSeq(rows, 1, k) \o <<row>> \o SubSeq(rows, k + 1, Len(rows))

RECURSIVE SortByNumber(_)
SortByNumber(rows) ==
    IF rows = <<>> THEN <<>>
    ELSE InsertByNumber(SortByNumber(SubSeq(rows, 1, Len(rows) - 1)), rows[Len(rows)])

\* Chapter.find({ mangaId }).sort({ number: 1 })
FindChapters(rows, mangaId) ==
    SortByNumber(SelectSeq(rows, LAMBDA row : row.mangaId = mangaId))

\* a caller invokes getMangaWithChapters(mangaId)
getMangaWithChapters_call(p, mangaId) ==
    /\ pc[p] = "idle"
    /\ calls < MaxCalls
    /\ calls' = calls + 1
    /\ pc' = [pc EXCEPT ![p] = "get_findById"]
    /\ frame' = [frame EXCEPT ![p] =
            [IdleFrame EXCEPT !.top = "get", !.call = "get", !.mangaId = mangaId]]
    /\ UNCHANGED <<works, units>>
    /\ UNCHANGED utilVars

\* connectDB and Manga.findById: the document is loaded
getMangaWithChapters_findById(p) ==
    /\ pc[p] = "get_findById"
    /\ frame[p].mangaId \in 1..Len(works)
    /\ frame' = [frame EXCEPT ![p].doc = <<works[frame[p].mangaId]>>]
    /\ pc' = [pc EXCEPT ![p] = "get_chapters"]
    /\ UNCHANGED <<works, units, calls>>
    /\ UNCHANGED utilVars

\* Manga.findById finds nothing: "Manga not found"
getMangaWithChapters_notFound(p) ==
    /\ pc[p] = "get_findById"
    /\ frame[p].mangaId \notin 1..Len(works)
    /\ EndCall(p, frame[p], "NotFound")
    /\ UNCHANGED <<works, units, calls>>
    /\ UNCHANGED utilVars

\* Chapter.find answers: return { manga, chapters }
getMangaWithChapters_chapters(p) ==
    /\ pc[p] = "get_chapters"
    /\ EndCall(p, [frame[p] EXCEPT !.found = FindChapters(units, frame[p].mangaId)],
               "none")
    /\ UNCHANGED <<works, units, calls>>
    /\ UNCHANGED utilVars

\* Chapter.find rejects: getMangaWithChapters rejects with it
getMangaWithChapters_chaptersFail(p) ==
    /\ pc[p] = "get_chapters"
    /\ EndCall(p, frame[p], "StorageFailed")
    /\ UNCHANGED <<works, units, calls>>
    /\ UNCHANGED utilVars

---------------------------------------------------------------------------
(* The route handlers: the status they answer with *)

\* "Manga not found: "
MangaNotFoundText ==
    << "M", "a", "n", "g", "a", " ", "n", "o", "t", " ", "f", "o", "u", "n",
       "d", ":", " " >>

\* "Scraper not found for source: "
ScraperNotFoundText ==
    << "S", "c", "r", "a", "p", "e", "r", " ", "n", "o", "t", " ", "f", "o",
       "u", "n", "d", " ", "f", "o", "r", " ", "s", "o", "u", "r", "c", "e",
       ":", " " >>

\* "Failed to fetch "
FailedToFetchText ==
    << "F", "a", "i", "l", "e", "d", " ", "t", "o", " ", "f", "e", "t", "c",
       "h", " " >>

\* "not found"
NotFoundText ==
    << "n", "o", "t", " ", "f", "o", "u", "n", "d" >>

\* error.message of what a call raised, as its characters; a value put into
\* the text, and the text of an error of the storage layer, is one element
Message(f) ==
    CASE f.error = "NotFound"      -> MangaNotFoundText \o <<ToString(f.mangaId)>>
      [] f.error = "InvalidSource" ->
             ScraperNotFoundText \o <<IF f.top = "sync" THEN f.syncSource ELSE f.source>>
      [] f.error = "FetchFailed"   -> FailedToFetchText \o <<"url and cause">>
      [] OTHER                     -> <<"storage error">>

\* message.includes(text)
Includes(message, text) ==
    \E k \in 0..(Len(message) - Len(text)) :
        \A j \in 1..Len(text) : message[k + j] = text[j]

\* a variant of the catch below that answers every error with 500
StatusGeneric(f) == 500

\* the status of the catch block: the handlers of GET /api/manga/[id] and of
\* POST /api/manga/[id]/update answer 404 when the message has "not found" in
\* it, every handler answers 500 otherwise
StatusOfError(f) ==
    IF f.top \in {"update", "get"} /\ Includes(Message(f), NotFoundText)
        THEN 404
        ELSE 500

\* the call returned: the handler answers with success
route_ok(p) ==
    /\ pc[p] = "returned"
    /\ pc' = [pc EXCEPT ![p] = "answered"]
    /\ frame' = [frame EXCEPT ![p].status = 200]
    /\ UNCHANGED <<works, units, calls>>
    /\ UNCHANGED utilVars

\* the call raised: the handler's catch block answers
route_catch(p) ==
    /\ pc[p] = "raised"
    /\ pc' = [pc EXCEPT ![p] = "answered"]
    /\ frame' = [frame EXCEPT ![p].status = StatusOfError(frame[p])]
    /\ UNCHANGED <<works, units, calls>>
    /\ UNCHANGED utilVars

\* the request is over
route_end(p) ==
    /\ pc[p] = "answered"
    /\ pc' = [pc EXCEPT ![p] = "idle"]
    /\ frame' = [frame EXCEPT ![p] = IdleFrame]
    /\ UNCHANGED <<works, units, calls>>
    /\ UNCHANGED utilVars

---------------------------------------------------------------------------
(* The callers *)

\* the route handler answers and the request is over
respond(p) ==
    /\ pc[p] \in {"returned", "raised"}
    /\ pc' = [pc EXCEPT ![p] = "idle"]
    /\ frame' = [frame EXCEPT ![p] = IdleFrame]
    /\ UNCHANGED <<works, units, calls>>
    /\ UNCHANGED utilVars

---------------------------------------------------------------------------
(* searchAllSources *)

\* SearchResult values, and the lists searchManga answers with
SearchResults == {"hit1", "hit2"}

ResultLists == SeqUpTo(SearchResults, MaxResults)

\* results[key] = value on the results object: the value of a key it has is
\* replaced, a new key is added after the ones it has
SetResult(object, key, value) ==
    IF \E k \in 1..Len(object) : object[k].key = key
        THEN [ k \in 1..Len(object) |->
                 IF object[k].key = key THEN [key |-> key, value |-> value]
                 ELSE object[k] ]
        ELSE Append(object, [key |-> key, value |-> value])

\* a caller invokes searchAllSources(query): one task per registered adapter
\* is started, each calling its adapter's searchManga
searchAllSources_call ==
    /\ searchPc = "idle"
    /\ searchPc' = "settling"
    /\ searchAnswers' = [source \in Registered |-> [kind |-> "pending"]]
    /\ results' = <<>>
    /\ UNCHANGED outsideSearch

\* an adapter's searchManga answers with its list: the task stores it
searchAllSources_taskDone(source, lists) ==
    /\ searchPc = "settling"
    /\ searchAnswers[source].kind = "pending"
    /\ \E searchResults \in lists :
          /\ searchAnswers' = [searchAnswers EXCEPT
                 ![source] = [kind |-> "ok", list |-> searchResults]]
          /\ results' = SetResult(results, source, searchResults)
    /\ UNCHANGED <<searchPc, outsideSearch>>

\* a variant of the task without its try block: the task rejects and stores
\* nothing
searchAllSources_taskRejects(source) ==
    /\ searchPc = "settling"
    /\ searchAnswers[source].kind = "pending"
    /\ searchAnswers' = [searchAnswers EXCEPT ![source] = [kind |-> "threw"]]
    /\ UNCHANGED <<searchPc, results, outsideSearch>>

\* an adapter's searchManga rejects: the task logs it and stores []
searchAllSources_taskFail(source) ==
    /\ searchPc = "settling"
    /\ searchAnswers[source].kind = "pending"
    /\ searchAnswers' = [searchAnswers EXCEPT ![source] = [kind |-> "threw"]]
    /\ results' = SetResult(results, source, <<>>)
    /\ UNCHANGED <<searchPc, outsideSearch>>

\* Promise.allSettled resolves, every task having settled: results is returned
searchAllSources_return ==
    /\ searchPc = "settling"
    /\ \A source \in Registered : searchAnswers[source].kind # "pending"
    /\ searchPc' = "returned"
    /\ UNCHANGED <<searchAnswers, results, outsideSearch>>

\* the route handler answers with the results
searchAllSources_respond ==
    /\ searchPc = "returned"
    /\ searchPc' = "idle"
    /\ searchAnswers' = [source \in Registered |-> [kind |-> "none"]]
    /\ results' = <<>>
    /\ UNCHANGED outsideSearch

---------------------------------------------------------------------------
(* RateLimiter *)

\* Date.now() at the start: later than any delay after the time 0 that
\* lastRequestTime starts with
Epoch == MaxDelay

NoTimer == [due |-> 0 - 1, now |-> 0 - 1]

\* a variant that takes the resolver queued last (this.queue.pop())
Pop(q) == [resolve |-> q[Len(q)], rest |-> SubSeq(q, 1, Len(q) - 1)]

\* this.queue.shift(): the first resolver, and the queue without it
Shift(q) == [resolve |-> Head(q), rest |-> Tail(q)]

\* a variant that assigns the loop's const now, read before the sleep
StampAtCheck(atCheck, atGrant) == atCheck

\* this.lastRequestTime = Date.now(), after the sleep if there was one: atCheck
\* is the loop's const now, atGrant the clock as the assignment runs
Stamp(atCheck, atGrant) == atGrant

\* a variant of the end of process() that leaves this.processing set
DrainExitBusy(last, g) ==
    [ queue |-> <<>>, processing |-> TRUE, lastRequestTime |-> last,
      timer |-> [due |-> 0 - 1, now |-> 0 - 1], grants |-> g ]

\* the end of process(): no resolver is left
DrainExit(last, g) ==
    [ queue |-> <<>>, processing |-> FALSE, lastRequestTime |-> last,
      timer |-> NoTimer, grants |-> g ]

\* process() from the head of its while loop, at clock t, up to its next await
\* or its end: with the delay elapsed the first resolver is shifted and called
\* and the loop goes round, otherwise the loop suspends on a timer
RECURSIVE Drain(_, _, _, _)
Drain(q, last, g, t) ==
    IF Len(q) = 0 THEN DrainExit(last, g)
    ELSE IF t - last < delayMs
        THEN [ queue |-> q, processing |-> TRUE, lastRequestTime |-> last,
               timer |-> [due |-> t + (delayMs - (t - last)), now |-> t],
               grants |-> g ]
        ELSE Drain(Shift(q).rest, Stamp(t, t),
                   Append(g, [id |-> Shift(q).resolve, at |-> t]), t)

\* the limiter takes the state st that a run of process() ended in
LimiterBecomes(st) ==
    /\ queue' = st.queue
    /\ processing' = st.processing
    /\ lastRequestTime' = st.lastRequestTime
    /\ timer' = st.timer
    /\ grants' = st.grants

\* a task calls wait(): its resolver is queued, and process() runs unless a
\* drain loop is already running
RateLimiter_wait ==
    /\ Len(waits) < MaxWaits
    /\ waits' = Append(waits, [at |-> now, processing |-> processing])
    /\ IF processing
          THEN /\ queue' = Append(queue, Len(waits) + 1)
               /\ UNCHANGED <<processing, lastRequestTime, timer, grants>>
          ELSE LimiterBecomes(Drain(Append(queue, Len(waits) + 1),
                                    lastRequestTime, grants, now))
    /\ UNCHANGED <<delayMs, now, outsideLimiter>>

\* the timer of the drain loop fires, at its due time or later: the first
\* resolver is shifted and called, and the loop goes round
RateLimiter_wake ==
    /\ timer # NoTimer
    /\ now >= timer.due
    /\ LimiterBecomes(Drain(Shift(queue).rest, Stamp(timer.now, now),
                            Append(grants, [id |-> Shift(queue).resolve, at |-> now]),
                            now))
    /\ UNCHANGED <<delayMs, now, waits, outsideLimiter>>

\* a millisecond passes
clock_tick ==
    /\ \/ now < Epoch + MaxTime
       \/ timer # NoTimer /\ now < timer.due
    /\ now' = now + 1
    /\ UNCHANGED <<delayMs, queue, processing, lastRequestTime, timer, waits, grants,
                   outsideLimiter>>

---------------------------------------------------------------------------
(* The adapters: which requests an operation sends, and where it waits for   *)
(* the rate limiter                                                           *)

\* the operations of IScraper
AdapterOps == {"searchManga", "getMangaDetails", "getLatestChapters", "getRecentUpdates"}

\* the candidate urls of WeebCentral's getRecentUpdates
RecentUrls == <<"/latest", "/latest-updates", "/manga-list", "/">>

\* An operation under way.  feed is the number of chapters the source holds
\* for the manga; start is the length of the trace when the operation was
\* called; offset and allChapters are the locals of fetchAllChapters, a fetched
\* page being kept as the run of feed positions it holds.
NoOp == [adapter |-> "none", op |-> "none", at |-> "idle", k |-> 0, result |-> "none",
         feed |-> 0, start |-> 0, offset |-> 0, allChapters |-> <<>>]

\* what makeRequest and the handling of its payload can come to: content (markup
\* or data with items), nothing (markup or data without an item), or a failure
\* (makeRequest rejects, or the payload is such that its handling throws)
FetchOutcomes == {"content", "nothing", "failed"}

\* the feed sizes: up to MaxPages full pages, then a page of 0, 3 or 499
FeedSizes == { p * PageLimit + r : p \in 0..MaxPages, r \in {0, 3, PageLimit - 1} }

\* the number of items the feed answers with for a page: those from offset on,
\* limit at most
PageLength(feed, offset, limit) ==
    IF feed - offset >= limit THEN limit
    ELSE IF feed - offset > 0 THEN feed - offset
    ELSE 0

\* a variant of the test below that also stops at a full page
LastPageEager(length, limit) == length <= limit

\* data.data.length < limit
LastPage(length, limit) == length < limit

\* what an operation ends with: a list with items, an empty list, the object
\* of getMangaDetails, or a rejection
Finished(o, result) == [o EXCEPT !.at = "done", !.result = result]

\* the list an operation returns from what its request came to
ListOf(outcome) == IF outcome = "content" THEN "list" ELSE "empty"

\* the url of the request an operation sends at loop index k
UrlOf(adapter, op, k) ==
    IF adapter = "mangadex"
        THEN CASE op = "searchManga"       -> "/manga?title"
               [] op = "getLatestChapters" -> "/manga/id/feed?desc"
               [] op = "getRecentUpdates"  -> "/manga?latest"
               [] op = "getMangaDetails"   ->
                      IF k = 0 THEN "/manga/id" ELSE "/manga/id/feed?asc"
        ELSE CASE op = "searchManga"       -> IF k = 0 THEN "/search?q" ELSE "/?s"
               [] op = "getMangaDetails"   -> "/manga/id"
               [] op = "getLatestChapters" -> "/manga/id"
               [] op = "getRecentUpdates"  -> RecentUrls[k]

\* is the request at hand one for a page of fetchAllChapters
IsPage(o) == o.adapter = "mangadex" /\ o.op = "getMangaDetails" /\ o.k >= 1

\* where an operation starts: WeebCentral's getRecentUpdates numbers its urls
\* from 1, everything else starts at index 0; each one first awaits the limiter
StartOf(adapter, op) ==
    [ NoOp EXCEPT !.adapter = adapter, !.op = op, !.at = "wait",
                  !.k = IF adapter = "weebcentral" /\ op = "getRecentUpdates"
                           THEN 1 ELSE 0 ]

\* a variant of the catch below that loses the pages fetched so far
PageFailedLosesAll(o) == Finished([o EXCEPT !.allChapters = <<>>], "details")

\* the catch of a page request: break, and return allChapters
PageFailed(o) == Finished(o, "details")

\* a page of fetchAllChapters was fetched: push its chapters; a short page: break;
\* else offset += limit and the next turn of the loop awaits the limiter
PageFetched(o) ==
    LET length == PageLength(o.feed, o.offset, PageLimit)
        pushed == [o EXCEPT !.allChapters =
                       Append(o.allChapters, [from |-> o.offset, n |-> length])]
    IN  IF LastPage(length, PageLimit)
            THEN Finished(pushed, "details")
            ELSE [pushed EXCEPT !.at = "wait", !.k = o.k + 1,
                                !.offset = o.offset + PageLimit]

\* where the operation goes after the request at index k came to outcome
AfterFetch(o, outcome) ==
    IF o.adapter = "mangadex"
        THEN IF o.op = "getMangaDetails"
                THEN IF o.k = 0
                        \* fetchMangaInfo: a failure rejects; then fetchAllChapters,
                        \* whose loop awaits the limiter before every page
                        THEN IF outcome = "failed" THEN Finished(o, "raised")
                             ELSE [o EXCEPT !.at = "wait", !.k = 1]
                        ELSE IF outcome = "failed" THEN PageFailed(o)
                             ELSE PageFetched(o)
                \* searchManga, getLatestChapters, getRecentUpdates: the catch
                \* returns []
                ELSE Finished(o, ListOf(outcome))
        ELSE IF o.op = "searchManga"
                \* the catch of the first request sends the alternative one;
                \* the catch of that one returns []
                THEN IF o.k = 0 /\ outcome = "failed"
                        THEN [o EXCEPT !.at = "fetch", !.k = 1]
                        ELSE Finished(o, ListOf(outcome))
             ELSE IF o.op = "getRecentUpdates"
                \* results: return; none or a failure: the next url
                THEN IF outcome # "content" /\ o.k < Len(RecentUrls)
                        THEN [o EXCEPT !.at = "fetch", !.k = o.k + 1]
                        ELSE Finished(o, ListOf(outcome))
             \* getMangaDetails rethrows, and getLatestChapters awaits it
             \* outside any try block
             ELSE IF outcome = "failed" THEN Finished(o, "raised")
             ELSE IF o.op = "getMangaDetails" THEN Finished(o, "details")
             ELSE Finished(o, ListOf(outcome))

\* what the source can answer the request at hand with: a page of the feed
\* has the items the feed holds from the offset on, or the request fails
Answers(o, outcome) ==
    IsPage(o) =>
        \/ outcome = "failed"
        \/ outcome = IF PageLength(o.feed, o.offset, PageLimit) > 0
                        THEN "content" ELSE "nothing"

\* a caller invokes an operation of an adapter
adapter_call(adapter, op) ==
    /\ adapterOp = NoOp
    /\ opsDone < MaxOps
    /\ \E feed \in FeedSizes :
          /\ (adapter = "mangadex" /\ op = "getMangaDetails") \/ feed = 0
          /\ adapterOp' = [StartOf(adapter, op) EXCEPT !.feed = feed,
                                                       !.start = Len(trace)]
    /\ UNCHANGED <<opsDone, trace, outsideAdapter>>

\* await this.rateLimiter.wait() returns
adapter_granted ==
    /\ adapterOp.at = "wait"
    /\ adapterOp' = [adapterOp EXCEPT !.at = "fetch"]
    /\ trace' = Append(trace, [kind |-> "grant", adapter |-> adapterOp.adapter,
                                url |-> "none", offset |-> 0, outcome |-> "none"])
    /\ UNCHANGED <<opsDone, outsideAdapter>>

\* the operation hands a request to makeRequest, which settles
adapter_fetch ==
    /\ adapterOp.at = "fetch"
    /\ \E outcome \in FetchOutcomes :
          /\ Answers(adapterOp, outcome)
          /\ trace' = Append(trace, [kind |-> "request", adapter |-> adapterOp.adapter,
                                      url |-> UrlOf(adapterOp.adapter, adapterOp.op,
                                                    adapterOp.k),
                                      offset |-> adapterOp.offset,
                                      outcome |-> outcome])
          /\ adapterOp' = AfterFetch(adapterOp, outcome)
    /\ UNCHANGED <<opsDone, outsideAdapter>>

\* the operation returns or rejects
adapter_return ==
    /\ adapterOp.at = "done"
    /\ adapterOp' = NoOp
    /\ opsDone' = opsDone + 1
    /\ UNCHANGED <<trace, outsideAdapter>>

---------------------------------------------------------------------------
(* makeRequest: attempts, backoff, and the request object handed to axios    *)

\* An option of the config argument: the key is missing, or present with the
\* value undefined, or present with a value.
Missing(nil) == [st |-> "missing", v |-> nil]

Undefined(nil) == [st |-> "undefined", v |-> nil]

Value(v) == [st |-> "value", v |-> v]

DefaultUserAgent == "Mozilla/5.0 (Windows NT 10.0; Win64; x64) AppleWebKit/537.36"

Urls == {"https://api.mangadex.org/manga", "https://weebcentral.com/search"}

Payloads == {"payload"}

\* what an attempt can reject with
Causes == {"timeout", "status", "transport"}

\* header objects, as sets of <<name, value>>
HeaderObjects ==
    { {<<"Accept", "text/html">>},
      {<<"User-Agent", "manga-app">>},
      {<<"User-Agent", "manga-app">>, <<"Accept", "text/html">>} }

\* the config arguments: no config at all is the one with every key missing
Configs ==
    [ retries : {Missing(0), Undefined(0)} \cup {Value(r) : r \in (0 - 1)..MaxRetries},
      timeout : {Missing(0), Undefined(0), Value(5000)},
      headers : {Missing({}), Undefined({})} \cup {Value(h) : h \in HeaderObjects} ]

\* a ?? b
Coalesce(option, default) == IF option.st = "value" THEN option.v ELSE default

\* headers?.[name], "" standing for undefined
HeaderOf(headers, name) ==
    IF \E h \in headers : h[1] = name
        THEN (CHOOSE h \in headers : h[1] = name)[2]
        ELSE ""

\* { ...base, ...over } on header objects
SpreadHeaders(base, over) ==
    { h \in base : ~ \E o \in over : o[1] = h[1] } \cup over

\* the headers literal of the axios call
ComposedHeaders(config) ==
    LET given == IF config.headers.st = "value" THEN config.headers.v ELSE {}
        agent == IF HeaderOf(given, "User-Agent") # ""
                    THEN HeaderOf(given, "User-Agent")
                    ELSE DefaultUserAgent
    IN  SpreadHeaders({<<"User-Agent", agent>>}, given)

\* a key of the literal followed by ...config: a key that config has, whatever
\* its value, replaces the one written before the spread
SpreadOption(written, over) == IF over.st = "missing" THEN written ELSE over

\* the object handed to axios
AxiosConfig(url, config) ==
    [ url     |-> url,
      timeout |-> SpreadOption(Value(Coalesce(config.timeout, DefaultTimeout)),
                               config.timeout),
      headers |-> SpreadOption(Value(ComposedHeaders(config)), config.headers) ]

\* a variant of the test below that gives up one attempt early
ExhaustedEarly(a, maxRetries) == a + 1 >= maxRetries

\* attempt === maxRetries
Exhausted(a, maxRetries) == a = maxRetries

RECURSIVE Pow2(_)
Pow2(n) == IF n = 0 THEN 1 ELSE 2 * Pow2(n - 1)

\* a variant of the delay below without the cap
BackoffUncapped(a) == BackoffBase * Pow2(a)

\* Math.min(1000 * Math.pow(2, attempt), 10000)
BackoffDelay(a) ==
    IF BackoffBase * Pow2(a) < BackoffCap THEN BackoffBase * Pow2(a) ELSE BackoffCap

NoResult == [kind |-> "none", payload |-> "none", url |-> "none",
             attempts |-> 0, cause |-> "none"]

\* `Failed to fetch ${url} after ${maxRetries + 1} attempts: ${error}`
FetchError(url, attempts, cause) ==
    [kind |-> "error", payload |-> "none", url |-> url,
     attempts |-> attempts, cause |-> cause]

\* makeRequest(url, config) up to its first await: with a negative retry count
\* the loop body is never entered and the throw after the loop is reached
makeRequest_call(url, config) ==
    /\ reqPc = "idle"
    /\ reqUrl' = url
    /\ reqConfig' = config
    /\ attempt' = 0
    /\ IF 0 <= Coalesce(config.retries, DefaultRetries)
          THEN /\ sent' = Append(sent, AxiosConfig(url, config))
               /\ reqPc' = "inflight"
               /\ reqResult' = reqResult
          ELSE /\ sent' = sent
               /\ reqPc' = "threw"
               /\ reqResult' = FetchError(url, 0, "none")
    /\ UNCHANGED <<failures, sleeps, outsideRequest>>

\* the attempt resolves: return response.data
makeRequest_attemptOk(payload) ==
    /\ reqPc = "inflight"
    /\ reqPc' = "returned"
    /\ reqResult' = [NoResult EXCEPT !.kind = "payload", !.payload = payload]
    /\ UNCHANGED <<reqUrl, reqConfig, attempt, sent, failures, sleeps, outsideRequest>>

\* the attempt rejects: throw when it was the last one, else start the sleep
makeRequest_attemptFails(cause) ==
    /\ reqPc = "inflight"
    /\ failures' = Append(failures, cause)
    /\ IF Exhausted(attempt, Coalesce(reqConfig.retries, DefaultRetries))
          THEN /\ reqPc' = "threw"
               /\ reqResult' =
                      FetchError(reqUrl,
                                 Coalesce(reqConfig.retries, DefaultRetries) + 1,
                                 cause)
               /\ sleeps' = sleeps
          ELSE /\ reqPc' = "sleeping"
               /\ sleeps' = Append(sleeps, BackoffDelay(attempt))
               /\ reqResult' = reqResult
    /\ UNCHANGED <<reqUrl, reqConfig, attempt, sent, outsideRequest>>

\* the sleep is over: attempt++, the loop test, the next attempt
makeRequest_retry ==
    /\ reqPc = "sleeping"
    /\ attempt' = attempt + 1
    /\ IF attempt + 1 <= Coalesce(reqConfig.retries, DefaultRetries)
          THEN /\ sent' = Append(sent, AxiosConfig(reqUrl, reqConfig))
               /\ reqPc' = "inflight"
               /\ reqResult' = reqResult
          ELSE /\ sent' = sent
               /\ reqPc' = "threw"
               /\ reqResult' = FetchError(reqUrl, 0, "none")
    /\ UNCHANGED <<reqUrl, reqConfig, failures, sleeps, outsideRequest>>

---------------------------------------------------------------------------
(* The helper functions of utils.ts, on character sequences *)

NoInput == <<>>

RECURSIVE Flatten(_)
Flatten(pieces) ==
    IF pieces = <<>> THEN <<>> ELSE Head(pieces) \o Flatten(Tail(pieces))

UpperCase == <<"A", "B", "C", "D", "E", "F", "G", "H", "I", "J", "K", "L", "M",
               "N", "O", "P", "Q", "R", "S", "T", "U", "V", "W", "X", "Y", "Z">>

LowerCase == <<"a", "b", "c", "d", "e", "f", "g", "h", "i", "j", "k", "l", "m",
               "n", "o", "p", "q", "r", "s", "t", "u", "v", "w", "x", "y", "z">>

LowerChar(c) ==
    IF \E k \in 1..Len(UpperCase) : UpperCase[k] = c
        THEN LowerCase[CHOOSE k \in 1..Len(UpperCase) : UpperCase[k] = c]
        ELSE c

\* s.toLowerCase()
ToLowerCase(s) == [k \in 1..Len(s) |-> LowerChar(s[k])]

RECURSIVE TrimEnd(_)
TrimEnd(s) ==
    IF s # <<>> /\ s[Len(s)] = " " THEN TrimEnd(SubSeq(s, 1, Len(s) - 1)) ELSE s

\* s.trim()
Trim(s) == TrimEnd(SkipWhite(s))

ChapterWord == <<"c", "h", "a", "p", "t", "e", "r">>

\* whether /chapter/i matches s at position k
ChapterAt(s, k) ==
    /\ k + Len(ChapterWord) - 1 <= Len(s)
    /\ \A j \in 1..Len(ChapterWord) : LowerChar(s[k + j - 1]) = ChapterWord[j]

\* s.replace(/chapter\s*/i, ""): the first match, with the white space that
\* follows it, is removed
ReplaceChapter(s) ==
    IF \E k \in 1..Len(s) : ChapterAt(s, k)
        THEN LET k == CHOOSE k \in 1..Len(s) :
                        ChapterAt(s, k) /\ \A j \in 1..(k - 1) : ~ChapterAt(s, j)
             IN  SubSeq(s, 1, k - 1)
                 \o SkipWhite(SubSeq(s, k + Len(ChapterWord), Len(s)))
        ELSE s

RECURSIVE NatToString(_)
NatToString(n) ==
    IF n < 10 THEN <<Digits[n + 1]>>
    ELSE NatToString(n \div 10) \o <<Digits[(n % 10) + 1]>>

\* the digits of n, with zeros in front up to the given width
RECURSIVE Padded(_, _)
Padded(n, width) ==
    IF width = 0 THEN <<>> ELSE Padded(n \div 10, width - 1) \o <<Digits[(n % 10) + 1]>>

\* num / 10^scale without the zeros at the end of the fraction
RECURSIVE Reduced(_)
Reduced(a) ==
    IF a.scale > 0 /\ a.num % 10 = 0
        THEN Reduced([a EXCEPT !.num = a.num \div 10, !.scale = a.scale - 1])
        ELSE a

\* String(n) of a number parseFloat yielded (within the range where no
\* exponent is written)
NumberToString(a) ==
    LET r == Reduced(a)
    IN  (IF r.neg /\ r.num # 0 THEN <<"-">> ELSE <<>>)
        \o NatToString(r.num \div Pow10(r.scale))
        \o (IF r.scale > 0
               THEN <<".">> \o Padded(r.num % Pow10(r.scale), r.scale)
               ELSE <<>>)

\* normalizeChapterNumber(chapter)
normalizeChapterNumber(chapter) ==
    LET cleaned == ReplaceChapter(Trim(chapter))
        parsed  == ParseFloat(cleaned)
    IN  IF parsed.nan THEN cleaned ELSE NumberToString(parsed)

\* the pieces the chapter number texts are made of
NumberPieces ==
    { <<"c", "h", "a", "p", "t", "e", "r">>,
      <<"C", "h", "a", "p", "t", "e", "r">>,
      <<" ">>, <<"5">>, <<"0">>, <<".">>, <<"a">> }

NumberTexts == { Flatten(pieces) : pieces \in SeqUpTo(NumberPieces, MaxPieces) }

\* normalizeChapterNumber is called with a text
normalizeChapterNumber_call(text) ==
    /\ fnInput = NoInput
    /\ fnOutputs = <<>>
    /\ fnInput' = <<"normalizeChapterNumber", text>>
    /\ fnOutputs' = <<normalizeChapterNumber(text)>>
    /\ UNCHANGED outsideHelpers

\* and called once more with what it returned
normalizeChapterNumber_again ==
    /\ fnInput # NoInput
    /\ fnInput[1] = "normalizeChapterNumber"
    /\ Len(fnOutputs) = 1
    /\ fnOutputs' = Append(fnOutputs, normalizeChapterNumber(fnOutputs[1]))
    /\ UNCHANGED <<fnInput, outsideHelpers>>

\* the substrings normalizeStatus looks for, by the status they stand for
OngoingWords == { <<"o", "n", "g", "o", "i", "n", "g">>,
                  <<"p", "u", "b", "l", "i", "s", "h", "i", "n", "g">>,
                  <<"r", "e", "l", "e", "a", "s", "i", "n", "g">> }

CompletedWords == { <<"c", "o", "m", "p", "l", "e", "t", "e", "d">>,
                    <<"f", "i", "n", "i", "s", "h", "e", "d">> }

HiatusWords == { <<"h", "i", "a", "t", "u", "s">>,
                 <<"o", "n", " ", "h", "o", "l", "d">> }

CancelledWords == { <<"c", "a", "n", "c", "e", "l", "l", "e", "d">>,
                    <<"d", "i", "s", "c", "o", "n", "t", "i", "n", "u", "e", "d">> }

\* whether the text has one of the words in it
IncludesAny(text, words) == \E word \in words : Includes(text, word)

\* a variant of normalizeStatus that looks for completed before ongoing
normalizeStatusCompletedFirst(status) ==
    IF ~status.given \/ status.text = <<>> THEN "ongoing"
    ELSE LET normalized == Trim(ToLowerCase(status.text))
         IN  IF IncludesAny(normalized, CompletedWords) THEN "completed"
             ELSE IF IncludesAny(normalized, OngoingWords) THEN "ongoing"
             ELSE IF IncludesAny(normalized, HiatusWords) THEN "hiatus"
             ELSE IF IncludesAny(normalized, CancelledWords) THEN "cancelled"
             ELSE "ongoing"

\* normalizeStatus(status): status is undefined (not given) or a text
normalizeStatus(status) ==
    IF ~status.given \/ status.text = <<>> THEN "ongoing"
    ELSE LET normalized == Trim(ToLowerCase(status.text))
         IN  IF IncludesAny(normalized, OngoingWords) THEN "ongoing"
             ELSE IF IncludesAny(normalized, CompletedWords) THEN "completed"
             ELSE IF IncludesAny(normalized, HiatusWords) THEN "hiatus"
             ELSE IF IncludesAny(normalized, CancelledWords) THEN "cancelled"
             ELSE "ongoing"

\* the words the status texts are made of
StatusPieces ==
    OngoingWords \cup CompletedWords \cup HiatusWords \cup CancelledWords
    \cup { <<"O", "N", "G", "O", "I", "N", "G">>,
           <<"F", "i", "n", "i", "s", "h", "e", "d">>,
           <<"O", "n", " ", "H", "o", "l", "d">>,
           <<" ">>, <<"x">> }

\* normalizeStatus is called without a status, or with a text
normalizeStatus_call(given, pieces) ==
    /\ fnInput = NoInput
    /\ fnOutputs = <<>>
    /\ given \/ pieces = <<>>
    /\ fnInput' = <<"normalizeStatus", [given |-> given, pieces |-> pieces]>>
    /\ fnOutputs' = <<normalizeStatus([given |-> given, text |-> Flatten(pieces)])>>
    /\ UNCHANGED outsideHelpers

\* attributes.title of the data of a MangaDex manga: undefined, or an object
\* from language tags to strings, here the sequence of its [tag, value]
\* entries in the order of the object's keys
TitleTags == {"en", "ja-ro", "ja", "ko"}

TitleValues == {"", "Dawn", "Yoake"}

TitleObjects ==
    { entries \in SeqUpTo([tag : TitleTags, value : TitleValues], MaxTitles) :
        \A i, j \in 1..Len(entries) :
            entries[i].tag = entries[j].tag => i = j }

Titles == {Undefined("")} \cup {Value(entries) : entries \in TitleObjects}

\* title?.[tag]
TitleOf(title, tag) ==
    IF title.st # "value" THEN Undefined("")
    ELSE IF \E i \in 1..Len(title.v) : title.v[i].tag = tag
         THEN Value(title.v[CHOOSE i \in 1..Len(title.v) : title.v[i].tag = tag].value)
         ELSE Undefined("")

\* Object.values(title || {})[0]
FirstValue(title) ==
    IF title.st = "value" /\ title.v # <<>>
    THEN Value(title.v[1].value)
    ELSE Undefined("")

\* a || b, for strings and undefined
Or(a, b) == IF a.st = "value" /\ a.v # "" THEN a ELSE b

\* a variant of the title of mapSearchResult that prefers the ja-ro value
mapSearchResultJaRoFirst(title) ==
    Or(TitleOf(title, "ja-ro"),
       Or(TitleOf(title, "en"),
          Or(FirstValue(title), Value("Unknown Title")))).v

\* the title of mapManga
mapManga(title) ==
    Or(TitleOf(title, "en"),
       Or(TitleOf(title, "ja-ro"),
          Or(FirstValue(title), Value("Unknown Title")))).v

\* the title of mapSearchResult
mapSearchResult(title) ==
    Or(TitleOf(title, "en"),
       Or(TitleOf(title, "ja-ro"),
          Or(FirstValue(title), Value("Unknown Title")))).v

\* searchManga and fetchMangaInfo map the data of one manga, in either order
mapSearchResult_call(title) ==
    /\ \/ fnInput = NoInput /\ fnOutputs = <<>>
       \/ /\ fnInput = <<"title", title>>
          /\ \A k \in 1..Len(fnOutputs) : fnOutputs[k].by # "mapSearchResult"
    /\ fnInput' = <<"title", title>>
    /\ fnOutputs' = Append(fnOutputs, [by |-> "mapSearchResult",
                                       title |-> mapSearchResult(title)])
    /\ UNCHANGED outsideHelpers

mapManga_call(title) ==
    /\ \/ fnInput = NoInput /\ fnOutputs = <<>>
       \/ /\ fnInput = <<"title", title>>
          /\ \A k \in 1..Len(fnOutputs) : fnOutputs[k].by # "mapManga"
    /\ fnInput' = <<"title", title>>
    /\ fnOutputs' = Append(fnOutputs, [by |-> "mapManga",
                                       title |-> mapManga(title)])
    /\ UNCHANGED outsideHelpers

\* the candidate selectors of the three list extractions of WeebCentral
SearchSelectors ==
    <<".manga-item", ".search-result", ".manga-list-item", ".item", ".post",
      "article">>

ChapterSelectors ==
    <<".chapter-list li", ".chapters li", ".chapter-item", ".wp-manga-chapter",
      "li[class*='chapter']">>

RecentSelectors ==
    <<".latest-update .manga-item", ".recent-manga", ".latest-manga",
      ".updated-manga">>

\* an element a selector matches: one with the link (and title) an item is
\* made of, or one without
Elements == {"linked", "bare"}

\* a page, as what $(selector) gives for each selector of a list: the
\* sequence of the elements it matches
PagesOf(selectors) ==
    UNION { { [i \in 1..Len(selectors) |-> IF i \in hits THEN matched[i] ELSE <<>>] :
                matched \in [hits -> SeqUpTo(Elements, MaxMatches) \ {<<>>}] } :
            hits \in {h \in SUBSET (1..Len(selectors)) : Cardinality(h) <= MaxHits} }

\* items.each(...): the items pushed for the elements a selector matches
RECURSIVE ItemsOf(_, _, _)
ItemsOf(selector, items, k) ==
    IF k > Len(items) THEN <<>>
    ELSE IF items[k] = "linked"
         THEN <<[selector |-> selector, element |-> k]>>
                  \o ItemsOf(selector, items, k + 1)
         ELSE ItemsOf(selector, items, k + 1)

\* a variant of the loop that goes on after a selector gave items
RECURSIVE ParseEverySelector(_, _, _, _)
ParseEverySelector(selectors, page, i, list) ==
    IF i > Len(selectors) THEN [results |-> list, consulted |-> i - 1]
    ELSE ParseEverySelector(selectors, page, i + 1,
                            list \o ItemsOf(selectors[i], page[i], 1))

\* for (const selector of selectors) { ... if (results.length > 0) break; }
RECURSIVE ParseList(_, _, _, _)
ParseList(selectors, page, i, list) ==
    IF i > Len(selectors) THEN [results |-> list, consulted |-> i - 1]
    ELSE LET items == page[i]
             after == IF Len(items) > 0
                       THEN list \o ItemsOf(selectors[i], items, 1)
                       ELSE list
         IN  IF Len(items) > 0 /\ Len(after) > 0
             THEN [results |-> after, consulted |-> i]
             ELSE ParseList(selectors, page, i + 1, after)

parseSearchResults(html) == ParseList(SearchSelectors, html, 1, <<>>)

parseChaptersList(html) == ParseList(ChapterSelectors, html, 1, <<>>)

parseRecentUpdates(html) == ParseList(RecentSelectors, html, 1, <<>>)

parseSearchResults_call(html) ==
    /\ fnInput = NoInput
    /\ fnOutputs = <<>>
    /\ fnInput' = <<"parse", SearchSelectors, html>>
    /\ fnOutputs' = <<parseSearchResults(html)>>
    /\ UNCHANGED outsideHelpers

parseChaptersList_call(html) ==
    /\ fnInput = NoInput
    /\ fnOutputs = <<>>
    /\ fnInput' = <<"parse", ChapterSelectors, html>>
    /\ fnOutputs' = <<parseChaptersList(html)>>
    /\ UNCHANGED outsideHelpers

parseRecentUpdates_call(html) ==
    /\ fnInput = NoInput
    /\ fnOutputs = <<>>
    /\ fnInput' = <<"parse", RecentSelectors, html>>
    /\ fnOutputs' = <<parseRecentUpdates(html)>>
    /\ UNCHANGED outsideHelpers

\* private readonly baseUrl of WeebCentralScraper
WeebCentralBaseUrl ==
    <<"h", "t", "t", "p", "s", ":", "/", "/", "w", "e", "e", "b", "c", "e", "n", "t", "r", "a", "l", ".", "c", "o", "m">>

\* s.startsWith(prefix)
StartsWith(s, prefix) ==
    /\ Len(prefix) <= Len(s)
    /\ \A k \in 1..Len(prefix) : s[k] = prefix[k]

\* a variant of normalizeUrl that tests for "/" before "//"
normalizeUrlRootFirst(url) ==
    IF StartsWith(url, <<"h", "t", "t", "p", ":", "/", "/">>)
       \/ StartsWith(url, <<"h", "t", "t", "p", "s", ":", "/", "/">>)
        THEN url
    ELSE IF StartsWith(url, <<"/">>) THEN WeebCentralBaseUrl \o url
    ELSE IF StartsWith(url, <<"/", "/">>) THEN <<"h", "t", "t", "p", "s", ":">> \o url
    ELSE WeebCentralBaseUrl \o <<"/">> \o url

\* normalizeUrl(url) of WeebCentralScraper
normalizeUrl(url) ==
    IF StartsWith(url, <<"h", "t", "t", "p", ":", "/", "/">>)
       \/ StartsWith(url, <<"h", "t", "t", "p", "s", ":", "/", "/">>)
        THEN url
    ELSE IF StartsWith(url, <<"/", "/">>) THEN <<"h", "t", "t", "p", "s", ":">> \o url
    ELSE IF StartsWith(url, <<"/">>) THEN WeebCentralBaseUrl \o url
    ELSE WeebCentralBaseUrl \o <<"/">> \o url

\* the pieces the urls found in a page are made of
UrlPieces == { <<"h", "t", "t", "p", ":">>,
              <<"h", "t", "t", "p", "s", ":">>,
              <<"/">>, <<"a">>, <<".">> }

UrlTexts == {Flatten(pieces) : pieces \in SeqUpTo(UrlPieces, MaxUrlPieces)}

\* normalizeUrl is called with an href or a src of the page
normalizeUrl_call(url) ==
    /\ fnInput = NoInput
    /\ fnOutputs = <<>>
    /\ fnInput' = <<"normalizeUrl", url>>
    /\ fnOutputs' = <<normalizeUrl(url)>>
    /\ UNCHANGED outsideHelpers

\* and called once more with what it returned
normalizeUrl_again ==
    /\ fnInput # NoInput
    /\ fnInput[1] = "normalizeUrl"
    /\ Len(fnOutputs) = 1
    /\ fnOutputs' = Append(fnOutputs, normalizeUrl(fnOutputs[1]))
    /\ UNCHANGED <<fnInput, outsideHelpers>>

---------------------------------------------------------------------------
(* Specifications *)

\* no searchAllSources call is under way
SearchIdle ==
    /\ searchPc = "idle"
    /\ searchAnswers = [source \in Registered |-> [kind |-> "none"]]
    /\ results = <<>>

\* a RateLimiter as constructed with delay d, at the start of the clock
LimiterIdle(d) ==
    /\ delayMs = d
    /\ queue = <<>>
    /\ processing = FALSE
    /\ lastRequestTime = 0
    /\ timer = NoTimer
    /\ now = Epoch
    /\ waits = <<>>
    /\ grants = <<>>

\* no adapter operation was called
AdapterIdle ==
    /\ adapterOp = NoOp
    /\ opsDone = 0
    /\ trace = <<>>

\* makeRequest was not called
RequestIdle ==
    /\ reqPc = "idle"
    /\ reqUrl = "none"
    /\ reqConfig = [retries |-> Missing(0), timeout |-> Missing(0), headers |-> Missing({})]
    /\ attempt = 0
    /\ sent = <<>>
    /\ failures = <<>>
    /\ sleeps = <<>>
    /\ reqResult = NoResult

\* no helper function was called
HelpersIdle ==
    /\ fnInput = NoInput
    /\ fnOutputs = <<>>

\* the components other than the coordinator's calls, at rest
UtilInit ==
    SearchIdle /\ LimiterIdle(MaxDelay) /\ AdapterIdle /\ RequestIdle /\ HelpersIdle

Init ==
    /\ works = <<>>
    /\ units = <<>>
    /\ pc = [p \in Procs |-> "idle"]
    /\ frame = [p \in Procs |-> IdleFrame]
    /\ calls = 0
    /\ UtilInit

\* SpecSeq: calls that do not overlap (one request, one call after the other)
\* of importManga and updateMangaChapters on one source id of a source with an
\* adapter and of one without, the adapters answering with every manga and
\* with lists over every chapter payload
SeqChapters == ScrapedChapters

SeqSources == {"weebcentral", "other"}

NextSeq ==
    \E p \in {"r1"} :
        \/ \E source \in SeqSources : importManga_call(p, source, "x")
        \/ \E mangaId \in 1..(Len(works) + 1) : updateMangaChapters_call(p, mangaId)
        \/ importManga_enter(p)
        \/ importManga_details(p, ScrapedMangas, ChapterLists(SeqChapters))
        \/ importManga_detailsFail(p)
        \/ importManga_findOne(p)
        \/ importManga_write(p)
        \/ importChapters_update(p)
        \/ importChapters_miss(p)
        \/ importChapters_insert(p)
        \/ importChapters_done(p)
        \/ updateMangaChapters_findById(p)
        \/ updateMangaChapters_notFound(p)
        \/ updateMangaChapters_latest(p, ChapterLists(SeqChapters))
        \/ updateMangaChapters_latestFail(p)
        \/ updateMangaChapters_pointer(p)
        \/ updateMangaChapters_save(p)
        \/ respond(p)

SpecSeq == Init /\ [][NextSeq]_vars

\* SpecSync: calls that do not overlap of all three operations on two source
\* ids, the adapters answering with one manga and with lists over one chapter;
\* here the save that ends updateMangaChapters may be refused by the storage
SyncSources == {"weebcentral", "other"}

NextSync ==
    \E p \in {"r1"} :
        \/ \E source \in SyncSources, sourceId \in SourceIds :
               importManga_call(p, source, sourceId)
        \/ \E mangaId \in 1..(Len(works) + 1) : updateMangaChapters_call(p, mangaId)
        \/ \E source \in SyncSources : syncRecentUpdates_call(p, source)
        \/ importManga_enter(p)
        \/ importManga_details(p, {MangaFull}, ChapterLists({ChapterDawn}))
        \/ importManga_detailsFail(p)
        \/ importManga_findOne(p)
        \/ importManga_write(p)
        \/ importChapters_update(p)
        \/ importChapters_miss(p)
        \/ importChapters_insert(p)
        \/ importChapters_done(p)
        \/ updateMangaChapters_findById(p)
        \/ updateMangaChapters_notFound(p)
        \/ updateMangaChapters_latest(p, ChapterLists({ChapterDawn}))
        \/ updateMangaChapters_latestFail(p)
        \/ updateMangaChapters_pointer(p)
        \/ updateMangaChapters_save(p)
        \/ updateMangaChapters_saveFail(p)
        \/ syncRecentUpdates_invalidSource(p)
        \/ syncRecentUpdates_recent(p, UpdateLists(SourceIds))
        \/ syncRecentUpdates_entry(p)
        \/ syncRecentUpdates_done(p)
        \/ respond(p)

SpecSync == Init /\ [][NextSync]_vars

\* SpecStorage: the calls of SpecSync, the storage rejecting any lookup, bulk
\* write or save at will
NextStorage ==
    \/ NextSync
    \/ \E p \in {"r1"} :
        \/ importManga_findOneFail(p)
        \/ importManga_writeFail(p)
        \/ importChapters_bulkWriteFail(p)
        \/ updateMangaChapters_findByIdFail(p)
        \/ syncRecentUpdates_findOneFail(p)

SpecStorage == Init /\ [][NextStorage]_vars

\* SpecRoute: requests that do not overlap to the handlers of import, of
\* update and of GET by id, on stored and on unknown manga ids, the storage
\* refusing the save of updateMangaChapters or the Chapter.find of
\* getMangaWithChapters at will
NextRoute ==
    \E p \in {"r1"} :
        \/ importManga_call(p, "weebcentral", "x")
        \/ \E mangaId \in 1..(Len(works) + 1) : updateMangaChapters_call(p, mangaId)
        \/ \E mangaId \in 1..(Len(works) + 1) : getMangaWithChapters_call(p, mangaId)
        \/ importManga_enter(p)
        \/ importManga_details(p, {MangaFull}, ChapterLists({ChapterDawn, ChapterNine}))
        \/ importManga_detailsFail(p)
        \/ importManga_findOne(p)
        \/ importManga_write(p)
        \/ importChapters_update(p)
        \/ importChapters_miss(p)
        \/ importChapters_insert(p)
        \/ importChapters_done(p)
        \/ updateMangaChapters_findById(p)
        \/ updateMangaChapters_notFound(p)
        \/ updateMangaChapters_latest(p, ChapterLists({ChapterDawn}))
        \/ updateMangaChapters_latestFail(p)
        \/ updateMangaChapters_pointer(p)
        \/ updateMangaChapters_save(p)
        \/ updateMangaChapters_saveFail(p)
        \/ getMangaWithChapters_findById(p)
        \/ getMangaWithChapters_notFound(p)
        \/ getMangaWithChapters_chapters(p)
        \/ getMangaWithChapters_chaptersFail(p)
        \/ route_ok(p)
        \/ route_catch(p)
        \/ route_end(p)

SpecRoute == Init /\ [][NextRoute]_vars

\* SpecSource: the calls of SpecSync and searchSource, each on a source with
\* an adapter and on one without
NextSource ==
    \/ NextSync
    \/ \E p \in {"r1"} :
          \/ \E source \in SyncSources : searchSource_call(p, source)
          \/ searchSource_invalidSource(p)
          \/ searchSource_search(p, ResultLists)
          \/ searchSource_searchFail(p)

SpecSource == Init /\ [][NextSource]_vars

\* Spec: two requests whose calls overlap: every await is a point where the
\* other request runs.  One source id, one manga, lists over one chapter, and
\* recent-updates lists of at most the one entry.
NextRace ==
    \E p \in Procs :
        \/ importManga_call(p, "weebcentral", "x")
        \/ \E mangaId \in 1..(Len(works) + 1) : updateMangaChapters_call(p, mangaId)
        \/ \E source \in SyncSources : syncRecentUpdates_call(p, source)
        \/ importManga_enter(p)
        \/ importManga_details(p, {MangaFull}, ChapterLists({ChapterDawn}))
        \/ importManga_detailsFail(p)
        \/ importManga_findOne(p)
        \/ importManga_write(p)
        \/ importChapters_update(p)
        \/ importChapters_miss(p)
        \/ importChapters_insert(p)
        \/ importChapters_retry(p)
        \/ importChapters_duplicateKey(p)
        \/ importChapters_done(p)
        \/ updateMangaChapters_findById(p)
        \/ updateMangaChapters_notFound(p)
        \/ updateMangaChapters_latest(p, ChapterLists({ChapterDawn}))
        \/ updateMangaChapters_latestFail(p)
        \/ updateMangaChapters_pointer(p)
        \/ updateMangaChapters_save(p)
        \/ syncRecentUpdates_invalidSource(p)
        \/ syncRecentUpdates_recent(p, {<<>>, <<"x">>})
        \/ syncRecentUpdates_entry(p)
        \/ syncRecentUpdates_done(p)
        \/ respond(p)

Spec == Init /\ [][NextRace]_vars

\* SpecSearch: searchAllSources calls, the adapters' searchManga answering, in
\* either order, with every result list or by rejecting (the IScraper contract;
\* the two adapters of this repository catch their own failures and answer [])
NextSearch ==
    \/ searchAllSources_call
    \/ \E source \in Registered : searchAllSources_taskDone(source, ResultLists)
    \/ \E source \in Registered : searchAllSources_taskFail(source)
    \/ searchAllSources_return
    \/ searchAllSources_respond

SpecSearch == Init /\ [][NextSearch]_vars

\* SpecLimiter: one RateLimiter of any delay up to MaxDelay, wait() calls
\* arriving at any time, before, during and after the drain loop's sleeps.  Time
\* passes and a due timer fires (weak fairness of the clock and of the timer).
InitLimiter ==
    /\ works = <<>>
    /\ units = <<>>
    /\ pc = [p \in Procs |-> "idle"]
    /\ frame = [p \in Procs |-> IdleFrame]
    /\ calls = 0
    /\ SearchIdle
    /\ AdapterIdle
    /\ RequestIdle
    /\ HelpersIdle
    /\ \E d \in 0..MaxDelay : LimiterIdle(d)

NextLimiter ==
    \/ RateLimiter_wait
    \/ RateLimiter_wake
    \/ clock_tick

SpecLimiter ==
    /\ InitLimiter
    /\ [][NextLimiter]_vars
    /\ WF_vars(RateLimiter_wake)
    /\ WF_vars(clock_tick)

\* SpecCross: calls of importManga that do not overlap, on the two sources
\* with an adapter and two source ids, the adapters answering with every
\* manga (so with the same title for two sources) and lists over one chapter
NextCross ==
    \E p \in {"r1"} :
        \/ \E source \in Registered, sourceId \in SourceIds :
              importManga_call(p, source, sourceId)
        \/ importManga_enter(p)
        \/ importManga_details(p, ScrapedMangas, ChapterLists({ChapterDawn}))
        \/ importManga_detailsFail(p)
        \/ importManga_findOne(p)
        \/ importManga_write(p)
        \/ importChapters_update(p)
        \/ importChapters_miss(p)
        \/ importChapters_insert(p)
        \/ importChapters_done(p)
        \/ respond(p)

SpecCross == Init /\ [][NextCross]_vars

\* SpecAdapter: operations of the two adapters, one after the other, every
\* request coming to every outcome
NextAdapter ==
    \/ \E adapter \in Registered, op \in AdapterOps : adapter_call(adapter, op)
    \/ adapter_granted
    \/ adapter_fetch
    \/ adapter_return

SpecAdapter == Init /\ [][NextAdapter]_vars

\* SpecNumber: normalizeChapterNumber applied to every text of up to MaxPieces
\* pieces, and to what it returned
NextNumber ==
    \/ \E text \in NumberTexts : normalizeChapterNumber_call(text)
    \/ normalizeChapterNumber_again

SpecNumber == Init /\ [][NextNumber]_vars

\* SpecStatus: normalizeStatus applied to no status and to every text of up
\* to MaxWords words
NextStatus ==
    \E given \in BOOLEAN, pieces \in SeqUpTo(StatusPieces, MaxWords) :
        normalizeStatus_call(given, pieces)

SpecStatus == Init /\ [][NextStatus]_vars

\* SpecTitle: the data of one manga, with every title object of up to
\* MaxTitles entries, mapped by mapSearchResult and by mapManga
NextTitle ==
    \/ \E title \in Titles : mapSearchResult_call(title)
    \/ \E title \in Titles : mapManga_call(title)

SpecTitle == Init /\ [][NextTitle]_vars

\* SpecParse: the three list extractions of WeebCentral, each applied to
\* every page in which up to MaxHits of its selectors match up to MaxMatches
\* elements
NextParse ==
    \/ /\ fnInput = NoInput
       /\ \E html \in PagesOf(SearchSelectors) : parseSearchResults_call(html)
    \/ /\ fnInput = NoInput
       /\ \E html \in PagesOf(ChapterSelectors) : parseChaptersList_call(html)
    \/ /\ fnInput = NoInput
       /\ \E html \in PagesOf(RecentSelectors) : parseRecentUpdates_call(html)

SpecParse == Init /\ [][NextParse]_vars

\* SpecUrl: normalizeUrl applied to every text of up to MaxUrlPieces pieces,
\* and once more to its result
NextUrl ==
    \/ /\ fnInput = NoInput
       /\ \E url \in UrlTexts : normalizeUrl_call(url)
    \/ normalizeUrl_again

SpecUrl == Init /\ [][NextUrl]_vars

\* SpecRequest: one makeRequest call with every config, every attempt coming
\* to every outcome; an attempt under way settles and a sleep ends
NextRequest ==
    \/ \E url \in Urls, config \in Configs : makeRequest_call(url, config)
    \/ \E payload \in Payloads : makeRequest_attemptOk(payload)
    \/ \E cause \in Causes : makeRequest_attemptFails(cause)
    \/ makeRequest_retry

SpecRequest ==
    /\ Init
    /\ [][NextRequest]_vars
    /\ WF_vars(\E payload \in Payloads : makeRequest_attemptOk(payload))
    /\ WF_vars(\E cause \in Causes : makeRequest_attemptFails(cause))
    /\ WF_vars(makeRequest_retry)

\* SpecUpd: one updateMangaChapters call on a stored manga that mirrors several
\* sources (the schema's sources array; importManga itself binds one source)
SeedBindings ==
    { [name |-> "mangadex", id |-> "x", url |-> "site/x"],
      [name |-> "weebcentral", id |-> "y", url |-> "site/y"],
      [name |-> "other", id |-> "z", url |-> "site/z"] }

\* the bindings of a seeded manga: sequences without repetition
SeedSources ==
    { b \in SeqUpTo(SeedBindings, MaxBindings) :
        /\ Len(b) >= 1
        /\ \A j, k \in 1..Len(b) : j # k => b[j] # b[k] }

SeedManga(sources, pointer) ==
    [ title |-> MangaFull.title,
      alternativeTitles |-> MangaFull.alternativeTitles,
      author |-> MangaFull.author,
      artist |-> MangaFull.artist,
      description |-> MangaFull.description,
      coverImage |-> MangaFull.coverImage,
      genres |-> MangaFull.genres,
      status |-> MangaFull.status,
      sources |-> sources,
      latestChapter |-> pointer ]

InitUpd ==
    /\ works \in { <<SeedManga(b, ptr)>> :
                      b \in SeedSources,
                      ptr \in {NoPointer, PointerOf(ChapterDawn, "mangadex"),
                               PointerOf(ChapterExtra, "weebcentral")} }
    /\ units = <<>>
    /\ pc = [p \in Procs |-> "idle"]
    /\ frame = [p \in Procs |-> IdleFrame]
    /\ calls = 0
    /\ UtilInit

NextUpd ==
    \E p \in {"r1"} :
        \/ \E mangaId \in 1..(Len(works) + 1) :
               calls = 0 /\ updateMangaChapters_call(p, mangaId)
        \/ importChapters_update(p)
        \/ importChapters_miss(p)
        \/ importChapters_insert(p)
        \/ importChapters_done(p)
        \/ updateMangaChapters_findById(p)
        \/ updateMangaChapters_notFound(p)
        \/ updateMangaChapters_noScraper(p)
        \/ updateMangaChapters_latest(p, ChapterLists({ChapterNine, ChapterDusk}))
        \/ updateMangaChapters_latestFail(p)
        \/ updateMangaChapters_pointer(p)
        \/ updateMangaChapters_save(p)
        \/ respond(p)

SpecUpd == InitUpd /\ [][NextUpd]_vars

\* SpecUpdRace: two requests whose updateMangaChapters calls overlap, on the
\* manga that importManga("weebcentral", "x") stored with chapter 9, the adapter
\* answering with lists over chapter 10 and chapter 10.5
InitUpdRace ==
    /\ works = <<NewManga(MangaFull, <<ChapterNine>>, "weebcentral", "x")>>
    /\ units = <<NewUnit(1, "weebcentral", ChapterNine)>>
    /\ pc = [p \in Procs |-> "idle"]
    /\ frame = [p \in Procs |-> IdleFrame]
    /\ calls = 0
    /\ UtilInit

NextUpdRace ==
    \E p \in Procs :
        \/ \E mangaId \in 1..(Len(works) + 1) : updateMangaChapters_call(p, mangaId)
        \/ importChapters_update(p)
        \/ importChapters_miss(p)
        \/ importChapters_insert(p)
        \/ importChapters_retry(p)
        \/ importChapters_duplicateKey(p)
        \/ importChapters_done(p)
        \/ updateMangaChapters_findById(p)
        \/ updateMangaChapters_notFound(p)
        \/ updateMangaChapters_latest(p, ChapterLists({ChapterDawn, ChapterDusk}))
        \/ updateMangaChapters_latestFail(p)
        \/ updateMangaChapters_pointer(p)
        \/ updateMangaChapters_save(p)
        \/ respond(p)

SpecUpdRace == InitUpdRace /\ [][NextUpdRace]_vars

---------------------------------------------------------------------------
(* Properties *)

\* document doc has the binding (source, sourceId) among its sources
Binds(doc, source, sourceId) ==
    \E k \in 1..Len(doc.sources) :
        doc.sources[k].name = source /\ doc.sources[k].id = sourceId

\* the stored documents that have the binding
BoundWorks(source, sourceId) ==
    { k \in 1..Len(works) : Binds(works[k], source, sourceId) }

\* C1: whatever importManga, updateMangaChapters and syncRecentUpdates calls
\* have run one after the other (SpecSync), at most one stored manga has any
\* given binding (source name, source id).
C1_UniqueBinding ==
    \A source \in SourceName, sourceId \in SourceIds :
        Cardinality(BoundWorks(source, sourceId)) <= 1

\* C1 happens: two manga are stored and an importManga of a binding that one
\* of them already has has returned
C1_Witness ==
    \E p \in Procs :
        /\ pc[p] = "returned"
        /\ frame[p].top = "import"
        /\ frame[p].existed
        /\ Len(works) >= 2

\* C2: when importManga and syncRecentUpdates calls for one source identity
\* overlap (Spec), no two stored manga ever share a binding.  The code breaks
\* this: both calls run Manga.findOne before either runs Manga.create.
C2_NoDuplicateWork ==
    \A j, k \in 1..Len(works) :
        j # k =>
            ~ \E a \in 1..Len(works[j].sources), b \in 1..Len(works[k].sources) :
                  /\ works[j].sources[a].name = works[k].sources[b].name
                  /\ works[j].sources[a].id = works[k].sources[b].id

\* C3: in every interleaving of overlapping calls (Spec), lists that repeat a
\* chapter source id included, no two stored chapters share
\* (mangaId, source.name, source.id).
C3_UniqueUnitKey ==
    \A j, k \in 1..Len(units) :
        MatchesUnit(units[j], units[k].mangaId, units[k].source.name,
                    units[k].source.id) => j = k

\* C3 happens: a request whose list repeats a chapter source id is about to
\* insert a key that another request has inserted since its match
C3_Witness ==
    \E p \in Procs :
        /\ pc[p] = "bulk_insert"
        /\ Len(frame[p].chapters) = 2
        /\ frame[p].chapters[1].sourceId = frame[p].chapters[2].sourceId
        /\ ~ChapterIndexAccepts(units,
               NewUnit(frame[p].mangaId, BulkSource(frame[p]),
                       frame[p].chapters[frame[p].i]))

\* the stored chapter row carries every field that the scraped chapter has,
\* under the key (mangaId, source, chapter.sourceId)
Carries(row, mangaId, source, chapter) ==
    /\ row.mangaId = mangaId
    /\ row.source = [name |-> source, id |-> chapter.sourceId,
                     url |-> chapter.sourceUrl]
    /\ row.number = chapter.number
    /\ \A fld \in OptionalChapterFields :
           chapter[fld] # Absent => row[fld] = chapter[fld]

\* C4: an upsert of importChapters on a key that a stored chapter already has
\* leaves that chapter carrying every field of the payload just written (the
\* last write wins) and leaves every other stored chapter as it was, adding
\* none.
C4_LastWriteWins ==
    [][ \A p \in Procs :
          ( /\ pc[p] = "bulk_match"
            /\ frame[p].i <= Len(frame[p].chapters)
            /\ frame'[p].i = frame[p].i + 1
            /\ MatchUnit(units, frame[p].mangaId, BulkSource(frame[p]),
                         frame[p].chapters[frame[p].i].sourceId) # 0 )
          => LET f == frame[p]
                 k == MatchUnit(units, f.mangaId, BulkSource(f),
                                f.chapters[f.i].sourceId)
             IN  /\ Len(units') = Len(units)
                 /\ Carries(units'[k], f.mangaId, BulkSource(f), f.chapters[f.i])
                 /\ \A j \in 1..Len(units) : j # k => units'[j] = units[j]
      ]_vars

\* C4 happens: one key was upserted with two payloads that differ in their
\* page counts, and two chapters are stored
C4_Witness ==
    \E p \in Procs :
        /\ pc[p] = "bulk_match"
        /\ frame[p].chapters = <<ChapterDawn, ChapterNine>>
        /\ frame[p].i = 3
        /\ Len(units) = 2
        /\ \E k \in 1..Len(units) :
               /\ Carries(units[k], frame[p].mangaId, BulkSource(frame[p]),
                          ChapterNine)
               /\ units[k].pages = ChapterNine.pages

\* C5: when importManga has returned for a binding that a stored manga already
\* had, exactly one stored manga has the binding, and its descriptive fields
\* are those of this (the second) import, none merged from the stored ones.
C5_SecondImportWins ==
    \A p \in Procs :
        ( pc[p] = "returned" /\ frame[p].top = "import" /\ frame[p].existed )
        => LET f == frame[p]
           IN  /\ BoundWorks(f.source, f.sourceId) = {f.mangaId}
               /\ works[f.mangaId].title = f.manga.title
               /\ works[f.mangaId].alternativeTitles = f.manga.alternativeTitles
               /\ works[f.mangaId].author = f.manga.author
               /\ works[f.mangaId].artist = f.manga.artist
               /\ works[f.mangaId].description = f.manga.description
               /\ works[f.mangaId].coverImage = f.manga.coverImage
               /\ works[f.mangaId].genres = f.manga.genres
               /\ works[f.mangaId].status = f.manga.status

\* C5 happens: the second import of a binding returned, with a title and an
\* author that differ from the stored ones
C5_Witness ==
    \E p \in Procs :
        /\ pc[p] = "returned"
        /\ frame[p].top = "import"
        /\ frame[p].existed
        /\ frame[p].before[1].title # frame[p].manga.title
        /\ frame[p].before[1].author # Absent
        /\ frame[p].manga.author = Absent

\* the stored chapters under the key (mangaId, source, chapterSourceId)
UnitsAt(mangaId, source, chapterSourceId) ==
    { k \in 1..Len(units) : MatchesUnit(units[k], mangaId, source, chapterSourceId) }

\* C6: when importManga has returned for a binding that no stored manga had,
\* exactly one stored manga has the binding; it has the scraped title and that
\* one binding only; and it owns exactly one chapter per fetched chapter
\* source id.
C6_ImportCreates ==
    \A p \in Procs :
        ( pc[p] = "returned" /\ frame[p].top = "import" /\ ~frame[p].existed )
        => LET f == frame[p]
           IN  /\ BoundWorks(f.source, f.sourceId) = {f.mangaId}
               /\ works[f.mangaId].title = f.manga.title
               /\ Len(works[f.mangaId].sources) = 1
               /\ \A i \in 1..Len(f.chapters) :
                      Cardinality(UnitsAt(f.mangaId, f.source,
                                          f.chapters[i].sourceId)) = 1
               /\ Cardinality({ k \in 1..Len(units) : units[k].mangaId = f.mangaId })
                      = Cardinality({ f.chapters[i].sourceId : i \in 1..Len(f.chapters) })

\* C6 happens: an import of two chapters of a binding that was not stored
\* returned, and the new manga owns two chapters
C6_Witness ==
    \E p \in Procs :
        /\ pc[p] = "returned"
        /\ frame[p].top = "import"
        /\ ~frame[p].existed
        /\ Len(frame[p].chapters) = 2
        /\ frame[p].chapters[1].sourceId # frame[p].chapters[2].sourceId
        /\ Cardinality({ k \in 1..Len(units) : units[k].mangaId = frame[p].mangaId }) = 2

C8_PointerAdvancesOnlyForward ==
    \A p \in Procs :
        ( pc[p] = "returned" /\ frame[p].top = "update" /\ Len(frame[p].fetched) = 1 )
        => LET f        == frame[p]
               cached   == f.before[1].latestChapter
               pointer  == works[f.mangaId].latestChapter
               seen     == f.fetched[1].list
               observed == seen[1].number
           IN  /\ pointer # cached =>
                      /\ Len(seen) > 0
                      /\ \/ cached = NoPointer
                         \/ FloatGreater(ParseFloat(observed),
                                         ParseFloat(cached[1].number))
                      /\ pointer = << [number |-> observed,
                                       title |-> seen[1].title,
                                       source |-> f.fetched[1].binding.name] >>
               /\ ( /\ cached # NoPointer
                    /\ Len(seen) > 0
                    /\ cached[1].number = N10 )
                  => /\ observed \in {N9, N10} => pointer = cached
                     /\ observed = N10_5 => ( /\ pointer # cached
                                              /\ pointer[1].number = N10_5 )

\* C8 happens: "10" was cached, "10.5" was observed, and the update returned
C8_Witness ==
    \E p \in Procs :
        /\ pc[p] = "returned"
        /\ frame[p].top = "update"
        /\ Len(frame[p].fetched) = 1
        /\ frame[p].before[1].latestChapter # NoPointer
        /\ frame[p].before[1].latestChapter[1].number = N10
        /\ Len(frame[p].fetched[1].list) > 0
        /\ frame[p].fetched[1].list[1].number = N10_5

\* C9: once updateMangaChapters has loaded its manga it never raises; the
\* bindings are taken in the order of the sources array, whether the fetch of
\* an earlier one failed or not; the manga is not saved inside the loop; and
\* when the call has returned every binding was taken, every chapter fetched
\* for a binding whose turn succeeded is stored under that binding, and the
\* manga was saved exactly once.
C9_UpdateIsolatesFailures ==
    \A p \in Procs :
        ( frame[p].top = "update" /\ frame[p].doc # <<>> )
        => LET f == frame[p]
               sources == f.doc[1].sources
           IN  /\ pc[p] # "raised"
               /\ Len(f.fetched) <= Len(sources)
               /\ \A k \in 1..Len(f.fetched) : f.fetched[k].binding = sources[k]
               /\ pc[p] # "returned" => ( f.saves = 0 /\ Len(f.fetched) = f.bi - 1 )
               /\ pc[p] = "returned" =>
                      /\ Len(f.fetched) = Len(sources)
                      /\ f.saves = 1
                      /\ \A k \in 1..Len(f.fetched) :
                             f.fetched[k].kind = "ok" =>
                                 \A i \in 1..Len(f.fetched[k].list) :
                                     UnitsAt(f.mangaId, sources[k].name,
                                             f.fetched[k].list[i].sourceId) # {}

\* C9 happens: the fetch of the first binding failed, the second binding's
\* chapters were fetched and stored, and the update returned
C9_Witness ==
    \E p \in Procs :
        /\ pc[p] = "returned"
        /\ frame[p].top = "update"
        /\ Len(frame[p].fetched) = 2
        /\ frame[p].fetched[1].kind = "threw"
        /\ frame[p].fetched[2].kind = "ok"
        /\ Len(frame[p].fetched[2].list) > 0
        /\ Len(units) > 0

\* C10: syncRecentUpdates takes the entries of the list one by one in list
\* order; an entry whose binding a stored manga has at that moment goes to
\* updateMangaChapters of that manga, which stores no new manga; an entry
\* whose binding no stored manga has goes to importManga; so of an entry that
\* is in the list twice the first is imported and, the import having
\* succeeded, the second is updated.
C10_SyncRoutesByBinding ==
    \A p \in Procs :
        frame[p].top = "sync"
        => LET f == frame[p]
           IN  /\ Len(f.route) <= Len(f.updates)
               /\ \A k \in 1..Len(f.route) : f.route[k].id = f.updates[k]
               /\ pc[p] = "sync_entry" => Len(f.route) = f.ui - 1
               /\ f.call # "sync" =>
                      /\ Len(f.route) = f.ui
                      /\ f.route[f.ui].to = f.call
               /\ f.call = "update" =>
                      /\ Binds(works[f.mangaId], f.syncSource, f.updates[f.ui])
                      /\ Len(works) = f.nworks
               /\ (f.call = "import" /\ pc[p] \in {"imp_enter", "imp_details", "imp_findOne"})
                      => /\ BoundWorks(f.syncSource, f.updates[f.ui]) = {}
                         /\ Len(works) = f.nworks
               /\ \A j, k \in 1..Len(f.route) :
                      ( /\ j < k
                        /\ f.updates[j] = f.updates[k]
                        /\ f.route[j].to = "import"
                        /\ f.outcome[j] = "none" )
                      => f.route[k].to = "update"

\* C10 happens: a sync of a list that names one manga twice returned, the
\* first entry imported, the second updated
C10_Witness ==
    \E p \in Procs :
        /\ pc[p] = "returned"
        /\ frame[p].top = "sync"
        /\ frame[p].updates = <<"x", "x">>
        /\ frame[p].route = << [id |-> "x", to |-> "import"],
                               [id |-> "x", to |-> "update"] >>
        /\ frame[p].outcome = <<"none", "none">>
        /\ Len(works) = 1

\* C11: in syncRecentUpdates, once the recent-updates list is there, the call
\* never raises; the call made for an entry has ended, by returning or by
\* raising, before the next entry is taken; and when syncRecentUpdates has
\* returned every entry of the list was taken.
C11_SyncIsolatesFailures ==
    \A p \in Procs :
        frame[p].top = "sync"
        => LET f == frame[p]
           IN  /\ pc[p] = "raised" => ( f.ui = 0 /\ f.error = "InvalidSource" )
               /\ f.call = "sync" => Len(f.outcome) = Len(f.route)
               /\ f.call # "sync" => Len(f.outcome) = Len(f.route) - 1
               /\ pc[p] = "returned" =>
                      /\ Len(f.route) = Len(f.updates)
                      /\ Len(f.outcome) = Len(f.updates)
                      /\ f.error = "none"

\* C11 happens: the call made for the first of two entries raised, the call
\* made for the second one returned, and syncRecentUpdates returned
C11_Witness ==
    \E p \in Procs :
        /\ pc[p] = "returned"
        /\ frame[p].top = "sync"
        /\ Len(frame[p].updates) = 2
        /\ Len(frame[p].route) = 2
        /\ frame[p].outcome[1] # "none"
        /\ frame[p].outcome[2] = "none"

\* the keys of the results object, and the value it has for a key
ResultKeys == { results[k].key : k \in 1..Len(results) }

ResultAt(key) == (CHOOSE k \in 1..Len(results) : results[k].key = key)

\* C12: searchAllSources never raises, and when it has returned the results
\* object has exactly one entry per registered adapter: the list the adapter's
\* searchManga answered with, as it answered it, or [] when searchManga
\* rejected; so the map is fixed by the adapters' answers, whatever the order
\* in which they settled.
C12_SearchAllCollects ==
    /\ searchPc \in {"idle", "settling", "returned"}
    /\ searchPc = "returned" =>
          /\ ResultKeys = Registered
          /\ Len(results) = Cardinality(Registered)
          /\ \A source \in Registered :
                 results[ResultAt(source)].value =
                     IF searchAnswers[source].kind = "ok"
                         THEN searchAnswers[source].list
                         ELSE <<>>

\* C12 happens: mangadex answered two results, weebcentral rejected and
\* settled first, and searchAllSources returned
C12_Witness ==
    /\ searchPc = "returned"
    /\ searchAnswers["mangadex"] = [kind |-> "ok", list |-> <<"hit2", "hit1">>]
    /\ searchAnswers["weebcentral"] = [kind |-> "threw"]
    /\ Len(results) = 2
    /\ results[1].key = "weebcentral"

\* C13: on a RateLimiter of any delay, however many wait() calls are pending
\* together, the times at which two resolvers are called one after the other
\* are at least the delay apart.
C13_GrantsSpaced ==
    \A k \in 1..(Len(grants) - 1) :
        grants[k + 1].at - grants[k].at >= delayMs

\* C13 happens: three wait() calls were made at the same instant on a limiter
\* with a delay of two milliseconds or more, and all three were granted
C13_Witness ==
    /\ delayMs >= 2
    /\ Len(grants) = 3
    /\ waits[1].at = waits[3].at
    /\ grants[3].at - grants[2].at = delayMs

\* C14: the resolvers are called in the order in which the wait() calls were
\* made, the calls made while the drain loop sleeps included.
C14_GrantsInCallOrder ==
    /\ \A k \in 1..Len(grants) : grants[k].id = k
    /\ \A k \in 1..Len(queue) : queue[k] = Len(grants) + k

\* C14 happens: the second wait() call started a drain loop that went to
\* sleep, the third call was made later, during that sleep, and all three were
\* granted
C14_Witness ==
    /\ Len(grants) = 3
    /\ ~waits[2].processing
    /\ waits[3].processing
    /\ waits[3].at > waits[2].at
    /\ grants[2].at > waits[3].at

\* C15: no resolver is ever queued without a drain loop that is suspended on
\* its timer, and every wait() call is eventually granted (wait() has no path
\* that rejects).
C15_EveryWaitGranted ==
    /\ [](Len(queue) > 0 => (processing /\ timer # NoTimer))
    /\ \A i \in 1..MaxWaits :
           (Len(waits) >= i) ~> (\E k \in 1..Len(grants) : grants[k].id = i)

\* C15 happens: the second wait() call came after the drain loop had ended,
\* the third one while the loop it started was sleeping, and all were granted
C15_Witness ==
    /\ Len(grants) = 3
    /\ ~waits[2].processing
    /\ waits[3].processing
    /\ Len(queue) = 0
    /\ ~processing

\* C16: every request an adapter hands to makeRequest comes right after a
\* grant of that adapter's rate limiter: no operation fetches before its first
\* grant, and no two requests are sent under one grant.  The code breaks the
\* second part: WeebCentral's searchManga sends its alternative search, and
\* its getRecentUpdates its further candidate urls, without waiting again.
C16_OneGrantPerRequest ==
    \A k \in 1..Len(trace) :
        trace[k].kind = "request" =>
            /\ k > 1
            /\ trace[k - 1].kind = "grant"
            /\ trace[k - 1].adapter = trace[k].adapter

C18_BackoffCapped ==
    /\ \A a \in 0..(Len(sleeps) - 1) :
          sleeps[a + 1] = CASE a = 0 -> 1000
                            [] a = 1 -> 2000
                            [] a = 2 -> 4000
                            [] a = 3 -> 8000
                            [] OTHER -> 10000
    /\ Len(sleeps) = IF reqPc = "threw" /\ Len(failures) > 0
                        THEN Len(failures) - 1
                        ELSE Len(failures)

\* five failed attempts slept for, the fifth sleep at the cap, then the
\* final failure with no sleep
C18_Witness ==
    /\ reqPc = "threw"
    /\ Len(failures) = 6
    /\ sleeps = <<1000, 2000, 4000, 8000, 10000>>

\* C19: every request handed to axios has a User-Agent header: the caller's
\* when the caller's headers have one, else the default one next to the
\* caller's headers.  The code breaks it: the config spread after the headers
\* literal puts the caller's headers object in its place.
C19_DefaultUserAgent ==
    \A k \in 1..Len(sent) :
        LET given == IF reqConfig.headers.st = "value" THEN reqConfig.headers.v ELSE {}
            out   == sent[k].headers
        IN  /\ out.st = "value"
            /\ given \subseteq out.v
            /\ \E h \in out.v :
                  /\ h[1] = "User-Agent"
                  /\ h[2] = IF \E g \in given : g[1] = "User-Agent"
                              THEN (CHOOSE g \in given : g[1] = "User-Agent")[2]
                              ELSE "Mozilla/5.0 (Windows NT 10.0; Win64; x64) AppleWebKit/537.36"

\* C20: every request handed to axios has a timeout: the caller's value when
\* the caller gave one, else 10000, also when the caller's config has the
\* timeout key with the value undefined.  The code breaks it: the config
\* spread after the timeout key puts the caller's undefined in its place.
C20_TimeoutOnEveryAttempt ==
    \A k \in 1..Len(sent) :
        /\ sent[k].timeout.st = "value"
        /\ sent[k].timeout.v = IF reqConfig.timeout.st = "value"
                                  THEN reqConfig.timeout.v
                                  ELSE 10000

\* C21: searchManga, getLatestChapters and getRecentUpdates of both adapters
\* never reject: whatever their requests come to, they return a list, the
\* empty one after a failure; only getMangaDetails can reject.  The code
\* breaks it: WeebCentral's getLatestChapters awaits getMangaDetails outside
\* any try block and rejects when that one does.
C21_ListOperationsNeverRaise ==
    (adapterOp.at = "done" /\ adapterOp.op # "getMangaDetails") =>
        adapterOp.result \in {"list", "empty"}

\* C22: the chapter listing of the MangaDex adapter requests its pages at
\* offsets 0, 500, 1000, ... in that order; when no page request fails, a
\* feed of n chapters is fetched in n \div 500 + 1 requests, the last one being
\* the first page of fewer than 500 items, and the list returned is the
\* pages in request order, n items in all (500 then 3 items: 503 items, two
\* requests).
C22_PagesInOffsetOrder ==
    (adapterOp.adapter = "mangadex" /\ adapterOp.op = "getMangaDetails") =>
        LET reqs == SelectSeq(SubSeq(trace, adapterOp.start + 1, Len(trace)),
                              LAMBDA e : e.kind = "request" /\ e.url = "/manga/id/feed?asc")
            n    == adapterOp.feed
        IN  /\ \A j \in 1..Len(reqs) : reqs[j].offset = (j - 1) * 500
            /\ ( /\ adapterOp.at = "done"
                 /\ adapterOp.result = "details"
                 /\ \A j \in 1..Len(reqs) : reqs[j].outcome # "failed" ) =>
                   /\ Len(reqs) = (n \div 500) + 1
                   /\ Len(adapterOp.allChapters) = Len(reqs)
                   /\ \A j \in 1..Len(reqs) :
                         adapterOp.allChapters[j] =
                             [ from |-> (j - 1) * 500,
                               n    |-> IF j * 500 <= n THEN 500 ELSE n - (j - 1) * 500 ]

\* a feed of 503 chapters listed: two page requests, 500 items then 3
C22_Witness ==
    /\ adapterOp.adapter = "mangadex"
    /\ adapterOp.op = "getMangaDetails"
    /\ adapterOp.at = "done"
    /\ adapterOp.feed = 503
    /\ adapterOp.allChapters = <<[from |-> 0, n |-> 500], [from |-> 500, n |-> 3]>>
    /\ trace[Len(trace)].offset = 500
    /\ trace[Len(trace)].outcome = "content"

\* C23: when a page request of the chapter listing fails, the listing ends
\* there: no further page is requested, nothing is raised, and the list
\* returned is the full pages fetched before the failure, none when the
\* first page failed.
C23_PageFailureKeepsPages ==
    (adapterOp.adapter = "mangadex" /\ adapterOp.op = "getMangaDetails") =>
        LET reqs == SelectSeq(SubSeq(trace, adapterOp.start + 1, Len(trace)),
                              LAMBDA e : e.kind = "request" /\ e.url = "/manga/id/feed?asc")
        IN  \A f \in 1..Len(reqs) :
                reqs[f].outcome = "failed" =>
                    /\ Len(reqs) = f
                    /\ adapterOp.at = "done"
                    /\ adapterOp.result = "details"
                    /\ Len(adapterOp.allChapters) = f - 1
                    /\ \A j \in 1..(f - 1) :
                          adapterOp.allChapters[j] = [from |-> (j - 1) * 500, n |-> 500]

\* the second page request fails: the first page is what is returned
C23_Witness ==
    /\ adapterOp.adapter = "mangadex"
    /\ adapterOp.op = "getMangaDetails"
    /\ adapterOp.at = "done"
    /\ adapterOp.result = "details"
    /\ trace[Len(trace)].outcome = "failed"
    /\ trace[Len(trace)].offset = 500
    /\ adapterOp.allChapters = <<[from |-> 0, n |-> 500]>>

\* C24: WeebCentral's searchManga sends the alternative query-string request
\* exactly once whenever the primary search request fails or its response
\* has no usable result, and then returns what the alternative gives, the
\* empty list when that one fails too; it never rejects.  The code breaks it:
\* a primary response without results is returned as the empty list and no
\* alternative request is sent.
C24_AlternateSearchOnNoResults ==
    ( /\ adapterOp.adapter = "weebcentral"
      /\ adapterOp.op = "searchManga"
      /\ adapterOp.at = "done" ) =>
        LET reqs == SelectSeq(SubSeq(trace, adapterOp.start + 1, Len(trace)),
                              LAMBDA e : e.kind = "request")
        IN  /\ adapterOp.result \in {"list", "empty"}
            /\ reqs[1].url = "/search?q"
            /\ IF reqs[1].outcome = "content"
                  THEN Len(reqs) = 1 /\ adapterOp.result = "list"
                  ELSE /\ Len(reqs) = 2
                       /\ reqs[2].url = "/?s"
                       /\ adapterOp.result =
                              IF reqs[2].outcome = "content" THEN "list" ELSE "empty"

\* C25: importManga matches a stored manga by its source binding only, never
\* by title, and never merges two manga: the write of an import whose
\* binding no stored manga has adds one manga with that one binding and
\* leaves every stored manga as it was, whatever the titles; the write of an
\* import whose binding is stored adds none; so importManga(A, x) and
\* importManga(B, y) with the same scraped title leave two manga.
C25_NoTitleMatching ==
    [][ \A p \in Procs :
          (pc[p] = "imp_write" /\ pc'[p] # "imp_write") =>
              LET f     == frame[p]
                  bound == \E k \in 1..Len(works) : \E b \in 1..Len(works[k].sources) :
                              /\ works[k].sources[b].name = f.source
                              /\ works[k].sources[b].id = f.sourceId
              IN  IF bound
                     THEN Len(works') = Len(works)
                     ELSE /\ Len(works') = Len(works) + 1
                          /\ \A k \in 1..Len(works) : works'[k] = works[k]
                          /\ works'[Len(works) + 1].title = f.manga.title
                          /\ Len(works'[Len(works) + 1].sources) = 1
                          /\ works'[Len(works) + 1].sources[1].name = f.source
                          /\ works'[Len(works) + 1].sources[1].id = f.sourceId ]_vars

\* two imports of one title from two sources have returned: two manga
C25_Witness ==
    /\ pc["r1"] = "returned"
    /\ Len(works) = 2
    /\ works[1].title = works[2].title
    /\ works[1].sources[1].name = "mangadex"
    /\ works[2].sources[1].name = "weebcentral"
    /\ works[1].sources[1].id = "x"
    /\ works[2].sources[1].id = "x"

\* C26: importManga, searchSource and syncRecentUpdates called with a source
\* token that has no adapter raise the invalid-source error at once: the
\* call goes from its entry straight to the error, it has received no adapter
\* answer, and the step that raises leaves the stored manga and chapters
\* as they are.
C26_InvalidSourceBeforeAnyRequest ==
    /\ [] ( \A p \in Procs :
              LET f == frame[p]
              IN  ( \/ f.top \in {"import", "search"} /\ f.source \notin {"mangadex", "weebcentral"}
                    \/ f.top = "sync" /\ f.syncSource \notin {"mangadex", "weebcentral"} ) =>
                      /\ pc[p] \in {"imp_enter", "src_enter", "sync_recent", "raised"}
                      /\ pc[p] = "raised" => f.error = "InvalidSource"
                      /\ f.call = f.top
                      /\ f.manga = NoManga
                      /\ f.chapters = <<>>
                      /\ f.updates = <<>>
                      /\ f.found = <<>> )
    /\ [][ \A p \in Procs :
             /\ ( pc'[p] = "raised" /\ pc[p] # "raised"
                  /\ frame'[p].error = "InvalidSource" ) =>
                    /\ pc[p] \in {"imp_enter", "src_enter", "sync_recent"}
                    /\ works' = works
                    /\ units' = units
             /\ ( pc'[p] \in {"imp_enter", "src_enter", "sync_recent"}
                  /\ pc[p] # pc'[p] /\ frame'[p].call = frame'[p].top ) =>
                    /\ pc[p] = "idle"
                    /\ works' = works
                    /\ units' = units ]_vars

\* with a manga and a chapter stored, searchSource on a token without adapter
\* has raised
C26_Witness ==
    /\ pc["r1"] = "raised"
    /\ frame["r1"].top = "search"
    /\ frame["r1"].source = "other"
    /\ frame["r1"].error = "InvalidSource"
    /\ Len(works) = 1
    /\ Len(units) = 1

C28_NormalizeIdempotent ==
    Len(fnOutputs) = 2 => fnOutputs[2] = fnOutputs[1]

\* C29: normalizeStatus always returns one of ongoing, completed, hiatus,
\* cancelled: ongoing when no status or an empty one is given; else, in this
\* order, ongoing when the text has ongoing, publishing or releasing in it
\* (in any case), completed when it has completed or finished, hiatus when
\* it has hiatus or on hold, cancelled when it has cancelled or
\* discontinued; and ongoing when it has none of them.
C29_StatusByPriority ==
    (fnInput # NoInput /\ fnInput[1] = "normalizeStatus") =>
        LET pieces == fnInput[2].pieces
            out    == fnOutputs[1]
        IN  /\ Len(fnOutputs) = 1
            /\ out \in {"ongoing", "completed", "hiatus", "cancelled"}
            /\ out =
                 IF ~fnInput[2].given \/ pieces = <<>> THEN "ongoing"
                 ELSE IF \E k \in 1..Len(pieces) : pieces[k] \in
                      { <<"o", "n", "g", "o", "i", "n", "g">>, <<"O", "N", "G", "O", "I", "N", "G">>, <<"p", "u", "b", "l", "i", "s", "h", "i", "n", "g">>, <<"r", "e", "l", "e", "a", "s", "i", "n", "g">> }
                     THEN "ongoing"
                 ELSE IF \E k \in 1..Len(pieces) : pieces[k] \in
                      { <<"c", "o", "m", "p", "l", "e", "t", "e", "d">>, <<"f", "i", "n", "i", "s", "h", "e", "d">>, <<"F", "i", "n", "i", "s", "h", "e", "d">> }
                     THEN "completed"
                 ELSE IF \E k \in 1..Len(pieces) : pieces[k] \in
                      { <<"h", "i", "a", "t", "u", "s">>, <<"o", "n", " ", "h", "o", "l", "d">>, <<"O", "n", " ", "H", "o", "l", "d">> }
                     THEN "hiatus"
                 ELSE IF \E k \in 1..Len(pieces) : pieces[k] \in
                      { <<"c", "a", "n", "c", "e", "l", "l", "e", "d">>, <<"d", "i", "s", "c", "o", "n", "t", "i", "n", "u", "e", "d">> }
                     THEN "cancelled"
                 ELSE "ongoing"

\* a text with completed before ongoing in it: ongoing
C29_Witness ==
    /\ fnInput # NoInput
    /\ fnInput[1] = "normalizeStatus"
    /\ fnInput[2].pieces = << <<"F", "i", "n", "i", "s", "h", "e", "d">>,
                             <<"O", "N", "G", "O", "I", "N", "G">> >>
    /\ fnOutputs = <<"ongoing">>

\* the usable values of a title object: the strings that are not empty
UsableValues(title) ==
    IF title.st # "value" THEN {}
    ELSE {title.v[i].value : i \in 1..Len(title.v)} \ {""}

\* C30: the title MangaDex data is mapped to is "Unknown Title" only when
\* the title object has no usable value.
C30_UnknownOnlyWithoutUsableValue ==
    (fnInput # NoInput /\ fnInput[1] = "title") =>
        \A k \in 1..Len(fnOutputs) :
            fnOutputs[k].title = "Unknown Title" => UsableValues(fnInput[2]) = {}

\* the rest of C30: the title is the English value when that is usable, else
\* the ja-ro value when that is usable, else the first value of the object
\* when that is usable, else "Unknown Title"
TitleInFixedOrder ==
    (fnInput # NoInput /\ fnInput[1] = "title") =>
        LET title == fnInput[2]
            Has(tag) == /\ title.st = "value"
                        /\ \E i \in 1..Len(title.v) :
                              title.v[i].tag = tag /\ title.v[i].value # ""
            At(tag) == title.v[CHOOSE i \in 1..Len(title.v) :
                                   title.v[i].tag = tag].value
        IN  \A k \in 1..Len(fnOutputs) :
                fnOutputs[k].title =
                    IF Has("en") THEN At("en")
                    ELSE IF Has("ja-ro") THEN At("ja-ro")
                    ELSE IF title.st = "value" /\ title.v # <<>>
                            /\ title.v[1].value # ""
                        THEN title.v[1].value
                    ELSE "Unknown Title"

\* and mapSearchResult and mapManga map one title object to the same title
SameTitleInSearchAndDetails ==
    (fnInput # NoInput /\ fnInput[1] = "title") =>
        \A j, k \in 1..Len(fnOutputs) : fnOutputs[j].title = fnOutputs[k].title

\* both have mapped a title object without an English value
SameTitleWitness ==
    /\ fnInput # NoInput
    /\ fnInput[1] = "title"
    /\ fnInput[2] = Value(<<[tag |-> "ko", value |-> "Dawn"],
                            [tag |-> "ja-ro", value |-> "Yoake"]>>)
    /\ Len(fnOutputs) = 2
    /\ fnOutputs[1].title = "Yoake"

\* the selectors of the list that match an element of the page
Matching(selectors, page) == {i \in 1..Len(selectors) : page[i] # <<>>}

\* the least of a set of numbers that is not empty
Least(S) == CHOOSE i \in S : \A j \in S : i <= j

\* C31: an extraction of the markup adapter returns the items of the first
\* selector, in the listed order, that matches an element of the page, and
\* consults no selector after that one.
C31_FirstMatchingSelector ==
    (fnInput # NoInput /\ fnInput[1] = "parse") =>
        LET selectors == fnInput[2]
            page      == fnInput[3]
            out       == fnOutputs[1]
        IN  Matching(selectors, page) # {} =>
                /\ out.consulted = Least(Matching(selectors, page))
                /\ \A k \in 1..Len(out.results) :
                       out.results[k].selector = selectors[out.consulted]

\* the rest of C31: the items returned are items of one selector
ItemsOfOneSelector ==
    (fnInput # NoInput /\ fnInput[1] = "parse") =>
        \A j, k \in 1..Len(fnOutputs[1].results) :
            fnOutputs[1].results[j].selector = fnOutputs[1].results[k].selector

\* and nothing is returned when no selector matches
EmptyWhenNothingMatches ==
    (fnInput # NoInput /\ fnInput[1] = "parse") =>
        (Matching(fnInput[2], fnInput[3]) = {} => fnOutputs[1].results = <<>>)

\* the selectors are tried in the listed order up to the first that gives
\* an item: the items returned are all the items of that one, and every
\* selector before it gave none
FirstSelectorWithItems ==
    (fnInput # NoInput /\ fnInput[1] = "parse") =>
        LET selectors == fnInput[2]
            page      == fnInput[3]
            out       == fnOutputs[1]
            Gives     == {i \in 1..Len(selectors) :
                            \E k \in 1..Len(page[i]) : page[i][k] = "linked"}
        IN  IF Gives = {}
            THEN out.results = <<>> /\ out.consulted = Len(selectors)
            ELSE /\ out.consulted = Least(Gives)
                 /\ out.results = ItemsOf(selectors[Least(Gives)],
                                          page[Least(Gives)], 1)

\* two selectors match and the first of them gives an item
FirstSelectorWitness ==
    /\ fnInput # NoInput
    /\ fnInput[1] = "parse"
    /\ fnInput[2] = ChapterSelectors
    /\ fnInput[3][2] = <<"bare", "linked">>
    /\ fnInput[3][4] = <<"linked">>
    /\ Len(fnOutputs[1].results) = 1

\* C32: a rejection of the storage during importManga, updateMangaChapters
\* or an entry of syncRecentUpdates is never taken as a skipped binding of
\* updateMangaChapters' loop or as a skipped entry of syncRecentUpdates'
\* loop: it reaches the caller of the operation.
C32_StorageFailurePropagates ==
    \A p \in Procs :
        /\ \A k \in 1..Len(frame[p].fetched) :
               frame[p].fetched[k].kind # "storageFailed"
        /\ \A k \in 1..Len(frame[p].outcome) :
               frame[p].outcome[k] # "StorageFailed"

\* C33: normalizeUrl of the markup adapter returns a url that starts with
\* http:// or https:// for every input: an input that starts with one of
\* the two unchanged; an input that starts with // with https: before it; an
\* input that starts with / with the base url before it; any other input
\* with the base url and a / before it.  Applied to its result it returns
\* the result.
C33_NormalizeUrlAbsolute ==
    (fnInput # NoInput /\ fnInput[1] = "normalizeUrl") =>
        LET url == fnInput[2]
            out == fnOutputs[1]
            Begins(s, n, prefix) == Len(s) >= n /\ SubSeq(s, 1, n) = prefix
            Absolute(s) == \/ Begins(s, 7, <<"h", "t", "t", "p", ":", "/", "/">>)
                           \/ Begins(s, 8, <<"h", "t", "t", "p", "s", ":", "/", "/">>)
        IN  /\ Absolute(out)
            /\ Absolute(url) => out = url
            /\ (~Absolute(url) /\ Begins(url, 2, <<"/", "/">>)) =>
                   out = <<"h", "t", "t", "p", "s", ":">> \o url
            /\ (~Begins(url, 2, <<"/", "/">>) /\ Begins(url, 1, <<"/">>)) =>
                   out = <<"h", "t", "t", "p", "s", ":", "/", "/", "w", "e", "e", "b", "c", "e", "n", "t", "r", "a", "l", ".", "c", "o", "m">>
                             \o url
            /\ (~Absolute(url) /\ ~Begins(url, 1, <<"/">>)) =>
                   out = <<"h", "t", "t", "p", "s", ":", "/", "/", "w", "e", "e", "b", "c", "e", "n", "t", "r", "a", "l", ".", "c", "o", "m", "/">>
                             \o url
            /\ Len(fnOutputs) = 2 => fnOutputs[2] = out

\* the url //a was normalized to https://a, and that once more
C33_Witness ==
    /\ fnInput = <<"normalizeUrl", <<"/", "/", "a">> >>
    /\ fnOutputs = << <<"h", "t", "t", "p", "s", ":", "/", "/", "a">>,
                      <<"h", "t", "t", "p", "s", ":", "/", "/", "a">> >>

\* C34: when importManga has returned for a manga that was stored with a
\* pointer, the cached number is not greater, as a number, than the number
\* of the pointer now stored: a re-import never replaces the pointer with one
\* of a smaller number.
C34_ReimportKeepsGreaterPointer ==
    \A p \in Procs :
        ( /\ pc[p] = "returned"
          /\ frame[p].top = "import"
          /\ frame[p].existed
          /\ frame[p].before[1].latestChapter # NoPointer )
        => ~FloatGreater(
               ParseFloat(frame[p].before[1].latestChapter[1].number),
               ParseFloat(works[frame[p].mangaId].latestChapter[1].number))

\* C35: when updateMangaChapters has returned for a manga with one binding
\* whose adapter answered with a list, not empty, of chapters with numeric
\* numbers, the stored pointer has a numeric number that no chapter of the
\* list exceeds, in whatever order the list is.
C35_PointerNotBelowFetched ==
    \A p \in Procs :
        ( /\ pc[p] = "returned"
          /\ frame[p].top = "update"
          /\ Len(frame[p].fetched) = 1
          /\ frame[p].fetched[1].kind = "ok"
          /\ Len(frame[p].fetched[1].list) > 0
          /\ \A k \in 1..Len(frame[p].fetched[1].list) :
                 ~ParseFloat(frame[p].fetched[1].list[k].number).nan )
        => LET pointer == works[frame[p].mangaId].latestChapter
               list    == frame[p].fetched[1].list
           IN  /\ pointer # NoPointer
               /\ ~ParseFloat(pointer[1].number).nan
               /\ \A k \in 1..Len(list) :
                      ~FloatGreater(ParseFloat(list[k].number),
                                    ParseFloat(pointer[1].number))

\* C36: under updateMangaChapters calls that overlap on one manga, no step
\* replaces a stored pointer by one whose number is smaller, as a number.
C36_RacingUpdatesKeepGreaterPointer ==
    [][ \A k \in 1..Len(works) :
          ( /\ works[k].latestChapter # NoPointer
            /\ works'[k].latestChapter # works[k].latestChapter )
          => ~FloatGreater(ParseFloat(works[k].latestChapter[1].number),
                           ParseFloat(works'[k].latestChapter[1].number)) ]_vars

\* C37: importManga writes nothing before getMangaDetails has answered, and
\* when getMangaDetails rejects importManga ends there with that failure:
\* a caller's own call is rejected with it, and inside syncRecentUpdates it
\* is the outcome of the entry.  The storage is as it was when importManga
\* was called.
C37_DetailsFailureLeavesStorage ==
    [][ \A p \in Procs :
          /\ ( /\ pc[p] \in {"idle", "sync_entry", "imp_enter", "imp_details"}
               /\ pc'[p] \in {"imp_enter", "imp_details", "imp_findOne",
                               "raised", "sync_entry"} )
             => ( works' = works /\ units' = units )
          /\ ( pc[p] = "imp_details" /\ pc'[p] \notin {"imp_details", "imp_findOne"} )
             => IF frame[p].top = "import"
                   THEN /\ pc'[p] = "raised"
                        /\ frame'[p].error = "FetchFailed"
                        /\ frame'[p].mangaId = 0
                   ELSE /\ pc'[p] = "sync_entry"
                        /\ frame'[p].outcome = Append(frame[p].outcome, "FetchFailed")
      ]_vars

\* C37 happens: with a manga stored, an importManga was rejected by the
\* failure of getMangaDetails
C37_Witness ==
    \E p \in Procs :
        /\ pc[p] = "raised"
        /\ frame[p].top = "import"
        /\ frame[p].error = "FetchFailed"
        /\ Len(works) > 0
        /\ Len(units) > 0

\* C38: every stored manga has exactly one source binding; no step deletes a
\* stored manga or adds, removes or changes a binding of one; and the loop of
\* updateMangaChapters takes at most one binding.
C38_SingleBinding ==
    /\ [](\A k \in 1..Len(works) : Len(works[k].sources) = 1)
    /\ [](\A p \in Procs : Len(frame[p].fetched) <= 1)
    /\ [][ /\ Len(works') >= Len(works)
           /\ \A k \in 1..Len(works) : works'[k].sources = works[k].sources ]_vars

\* C38 happens: an import created a manga, and an update of it took its one
\* binding, fetched a chapter and returned
C38_Witness ==
    \E p, q \in Procs :
        /\ pc[p] = "returned"
        /\ frame[p].top = "update"
        /\ Len(frame[p].fetched) = 1
        /\ frame[p].fetched[1].kind = "ok"
        /\ Len(frame[p].fetched[1].list) > 0
        /\ pc[q] = "returned"
        /\ frame[q].top = "import"
        /\ ~frame[q].existed
        /\ frame[q].mangaId = frame[p].mangaId

====
